---- MODULE Spec2Model ----
(***************************************************************************)
(* Model of the dependency version uplift checker: the version classifier  *)
(* (src/src/version.ts), the dependency-set differ (compareVersions) and   *)
(* the cross-file reconciler (deduplicateChanges).                         *)
(*                                                                         *)
(* A JavaScript string is modelled as a sequence of one-character strings, *)
(* so that the regular expressions, trim(), includes() and the template    *)
(* literals of the source are computed character by character.  The values *)
(* null and undefined are the one-element sequences NULL and UNDEFINED,    *)
(* whose element is no character, so they differ from every string.        *)
(***************************************************************************)
EXTENDS Integers, Sequences, FiniteSets, TLC

VARIABLES pc,
          version, cleaned, recleaned,
          oldVersion, newVersion, changeType,
          oldDeps, newDeps, changes,
          allChanges, uniqueChanges

NULL == <<"null">>
UNDEFINED == <<"undefined">>

(***************************************************************************)
(* Characters                                                              *)
(***************************************************************************)
DigitChars == <<"0", "1", "2", "3", "4", "5", "6", "7", "8", "9">>
Digit == {DigitChars[i] : i \in 1..10}
DigitValue(c) == (CHOOSE i \in 1..10 : DigitChars[i] = c) - 1
Letter == {"a", "b", "c", "d", "e", "f", "g", "h", "i", "j", "k", "l", "m",
           "n", "o", "p", "q", "r", "s", "t", "u", "v", "w", "x", "y", "z",
           "A", "B", "C", "D", "E", "F", "G", "H", "I", "J", "K", "L", "M",
           "N", "O", "P", "Q", "R", "S", "T", "U", "V", "W", "X", "Y", "Z"}
\* the character class [\^~=<>!] of cleanVersion
RangeOperatorChars == {"^", "~", "=", "<", ">", "!"}
\* the characters String.prototype.trim removes (those the model's strings use)
WhiteSpace == {" ", "\t"}

(***************************************************************************)
(* cleanVersion: version.replace(/^[\^~=<>!]+/, '').trim()                 *)
(***************************************************************************)
RECURSIVE StripLeadingOperators(_)
StripLeadingOperators(s) ==
    IF s # <<>> /\ Head(s) \in RangeOperatorChars
    THEN StripLeadingOperators(Tail(s))
    ELSE s

RECURSIVE TrimStart(_)
TrimStart(s) ==
    IF s # <<>> /\ Head(s) \in WhiteSpace THEN TrimStart(Tail(s)) ELSE s

RECURSIVE TrimEnd(_)
TrimEnd(s) ==
    IF s # <<>> /\ s[Len(s)] \in WhiteSpace
    THEN TrimEnd(SubSeq(s, 1, Len(s) - 1))
    ELSE s

Trim(s) == TrimEnd(TrimStart(s))

cleanVersion(v) == Trim(StripLeadingOperators(v))

(***************************************************************************)
(* The semver library as determineChangeType uses it (version.ts:20-33):   *)
(* coerce, prerelease and diff.  Every string of the model is shorter than *)
(* the library's limits (16 digits per component, 256 characters, numbers  *)
(* below 2^53), so those limits never bind here.                           *)
(***************************************************************************)
AllIn(s, S) == \A i \in 1..Len(s) : s[i] \in S

RECURSIVE DecimalValue(_)
DecimalValue(ds) ==
    IF ds = <<>> THEN 0
    ELSE 10 * DecimalValue(SubSeq(ds, 1, Len(ds) - 1)) + DigitValue(ds[Len(ds)])

\* the position of the first c of S in s at or after i, Len(s) + 1 if none
RECURSIVE IndexOfAny(_, _, _)
IndexOfAny(s, S, i) ==
    IF i > Len(s) THEN Len(s) + 1
    ELSE IF s[i] \in S THEN i
    ELSE IndexOfAny(s, S, i + 1)

\* s.split(sep) for a one-character separator
RECURSIVE Split(_, _)
Split(s, sep) ==
    LET k == IndexOfAny(s, {sep}, 1)
    IN  IF k > Len(s) THEN <<s>>
        ELSE <<SubSeq(s, 1, k - 1)>> \o Split(SubSeq(s, k + 1, Len(s)), sep)

\* 0|[1-9]\d*
NumericIdentifier(id) ==
    id # <<>> /\ AllIn(id, Digit) /\ (Len(id) = 1 \/ id[1] # "0")

\* 0|[1-9]\d* or \d*[a-zA-Z-][a-zA-Z0-9-]*
PrereleaseIdentifier(id) ==
    /\ id # <<>>
    /\ AllIn(id, Digit \cup Letter \cup {"-"})
    /\ (AllIn(id, Digit) => NumericIdentifier(id))

\* [a-zA-Z0-9-]+
BuildIdentifier(id) == id # <<>> /\ AllIn(id, Digit \cup Letter \cup {"-"})

NotSemVer == [valid |-> FALSE]

\* semver.parse: new SemVer(version) with the strict grammar
\*   ^v?MAJOR.MINOR.PATCH(-PRERELEASE)?(+BUILD)?$  applied to version.trim()
semverParse(v) ==
    LET t == Trim(v)
        s == IF t # <<>> /\ Head(t) = "v" THEN Tail(t) ELSE t
        mainEnd == IndexOfAny(s, {"-", "+"}, 1)
        main == Split(SubSeq(s, 1, mainEnd - 1), ".")
        hasPre == mainEnd <= Len(s) /\ s[mainEnd] = "-"
        preEnd == IF hasPre THEN IndexOfAny(s, {"+"}, mainEnd + 1) ELSE mainEnd
        pre == IF hasPre THEN Split(SubSeq(s, mainEnd + 1, preEnd - 1), ".") ELSE <<>>
        hasBuild == preEnd <= Len(s)
        build == IF hasBuild THEN Split(SubSeq(s, preEnd + 1, Len(s)), ".") ELSE <<>>
    IN  IF /\ Len(main) = 3
           /\ \A i \in 1..3 : NumericIdentifier(main[i])
           /\ \A i \in 1..Len(pre) : PrereleaseIdentifier(pre[i])
           /\ \A i \in 1..Len(build) : BuildIdentifier(build[i])
        THEN [valid |-> TRUE,
              major |-> DecimalValue(main[1]),
              minor |-> DecimalValue(main[2]),
              patch |-> DecimalValue(main[3]),
              prerelease |-> pre]
        ELSE NotSemVer

\* the last position of the run of digits that starts at i
RECURSIVE DigitRunEnd(_, _)
DigitRunEnd(s, i) ==
    IF i < Len(s) /\ s[i + 1] \in Digit THEN DigitRunEnd(s, i + 1) ELSE i

\* semver.coerce: the first match of
\*   (^|[^\d])(\d{1,16})(?:\.(\d{1,16}))?(?:\.(\d{1,16}))?(?:$|[^\d])
\* rebuilt as "major.minor.patch" (a missing component is '0') and parsed
semverCoerce(v) ==
    LET i == IndexOfAny(v, Digit, 1)
    IN  IF i > Len(v) THEN NotSemVer
        ELSE LET e1 == DigitRunEnd(v, i)
                 hasMinor == e1 + 2 <= Len(v) /\ v[e1 + 1] = "." /\ v[e1 + 2] \in Digit
                 e2 == IF hasMinor THEN DigitRunEnd(v, e1 + 2) ELSE e1
                 hasPatch == /\ hasMinor
                             /\ e2 + 2 <= Len(v) /\ v[e2 + 1] = "." /\ v[e2 + 2] \in Digit
                 e3 == IF hasPatch THEN DigitRunEnd(v, e2 + 2) ELSE e2
                 major == SubSeq(v, i, e1)
                 minor == IF hasMinor THEN SubSeq(v, e1 + 2, e2) ELSE <<"0">>
                 patch == IF hasPatch THEN SubSeq(v, e2 + 2, e3) ELSE <<"0">>
             IN  semverParse(major \o <<".">> \o minor \o <<".">> \o patch)

\* semver.prerelease: the prerelease identifiers of a valid version that has
\* some, else null.  It never returns an empty array, so <<>> stands for null.
semverPrerelease(v) ==
    LET parsed == semverParse(v)
    IN  IF parsed.valid THEN parsed.prerelease ELSE <<>>

\* a diff that sees a component that grew only
semverDiff_GrowthOnly(v1, v2) ==
    IF v1.major < v2.major THEN "major"
    ELSE IF v1.major = v2.major /\ v1.minor < v2.minor THEN "minor"
    ELSE IF v1.major = v2.major /\ v1.minor = v2.minor /\ v1.patch < v2.patch THEN "patch"
    ELSE "null"

\* semver.diff of two versions without prerelease identifiers (coerce keeps
\* none): null when equal, else the first component that differs
semverDiff(v1, v2) ==
    IF v1.major # v2.major THEN "major"
    ELSE IF v1.minor # v2.minor THEN "minor"
    ELSE IF v1.patch # v2.patch THEN "patch"
    ELSE "null"

\* diff.includes(word) over the release types semver.diff can return
DiffIncludes(diff, word) ==
    CASE word = "major" -> diff \in {"major", "premajor"}
      [] word = "minor" -> diff \in {"minor", "preminor"}
      [] word = "patch" -> diff \in {"patch", "prepatch"}
      [] word = "prerelease" -> diff = "prerelease"
      [] word = "pre" -> diff \in {"premajor", "preminor", "prepatch", "prerelease"}

\* determineChangeType with the results of the major and the minor branch
\* exchanged
determineChangeType_MajorMinorSwapped(old, new) ==
    LET cleanOld == cleanVersion(old)
        cleanNew == cleanVersion(new)
        semverOld == semverCoerce(cleanOld)
        semverNew == semverCoerce(cleanNew)
        diff == semverDiff(semverOld, semverNew)
    IN  IF ~semverOld.valid \/ ~semverNew.valid THEN "other"
        ELSE IF semverPrerelease(cleanNew) # <<>> THEN "prerelease"
        ELSE IF diff = "null" THEN "other"
        ELSE IF DiffIncludes(diff, "major") THEN "minor"
        ELSE IF DiffIncludes(diff, "minor") THEN "major"
        ELSE IF DiffIncludes(diff, "patch") THEN "patch"
        ELSE IF DiffIncludes(diff, "prerelease") \/ DiffIncludes(diff, "pre")
             THEN "prerelease"
        ELSE "other"

\* determineChangeType with the structural diff consulted before the
\* prerelease probe
determineChangeType_DiffFirst(old, new) ==
    LET cleanOld == cleanVersion(old)
        cleanNew == cleanVersion(new)
        semverOld == semverCoerce(cleanOld)
        semverNew == semverCoerce(cleanNew)
        diff == semverDiff(semverOld, semverNew)
    IN  IF ~semverOld.valid \/ ~semverNew.valid THEN "other"
        ELSE IF DiffIncludes(diff, "major") THEN "major"
        ELSE IF DiffIncludes(diff, "minor") THEN "minor"
        ELSE IF DiffIncludes(diff, "patch") THEN "patch"
        ELSE IF semverPrerelease(cleanNew) # <<>> THEN "prerelease"
        ELSE "other"

\* determineChangeType with the prerelease probe made before the check that
\* both versions coerce
determineChangeType_PrereleaseFirst(old, new) ==
    LET cleanOld == cleanVersion(old)
        cleanNew == cleanVersion(new)
        semverOld == semverCoerce(cleanOld)
        semverNew == semverCoerce(cleanNew)
        diff == semverDiff(semverOld, semverNew)
    IN  IF semverPrerelease(cleanNew) # <<>> THEN "prerelease"
        ELSE IF ~semverOld.valid \/ ~semverNew.valid THEN "other"
        ELSE IF diff = "null" THEN "other"
        ELSE IF DiffIncludes(diff, "major") THEN "major"
        ELSE IF DiffIncludes(diff, "minor") THEN "minor"
        ELSE IF DiffIncludes(diff, "patch") THEN "patch"
        ELSE "other"

determineChangeType(old, new) ==
    LET cleanOld == cleanVersion(old)
        cleanNew == cleanVersion(new)
        semverOld == semverCoerce(cleanOld)
        semverNew == semverCoerce(cleanNew)
        diff == semverDiff(semverOld, semverNew)
    IN  IF ~semverOld.valid \/ ~semverNew.valid THEN "other"
        ELSE IF semverPrerelease(cleanNew) # <<>> THEN "prerelease"
        ELSE IF diff = "null" THEN "other"
        ELSE IF DiffIncludes(diff, "major") THEN "major"
        ELSE IF DiffIncludes(diff, "minor") THEN "minor"
        ELSE IF DiffIncludes(diff, "patch") THEN "patch"
        ELSE IF DiffIncludes(diff, "prerelease") \/ DiffIncludes(diff, "pre")
             THEN "prerelease"
        ELSE "other"

(***************************************************************************)
(* compareVersions.  A Map<string, string> is the sequence of its entries  *)
(* <<name, version>> in insertion order, the names distinct.               *)
(***************************************************************************)
MapKeys(m) == {m[i][1] : i \in 1..Len(m)}
MapHas(m, name) == name \in MapKeys(m)
MapGet(m, name) ==
    IF MapHas(m, name)
    THEN m[CHOOSE i \in 1..Len(m) : m[i][1] = name][2]
    ELSE UNDEFINED

\* !value for a string or undefined
Falsy(value) == value = UNDEFINED \/ value = <<>>

RECURSIVE Flatten(_)
Flatten(ss) == IF Len(ss) = 0 THEN <<>> ELSE Head(ss) \o Flatten(Tail(ss))

\* compareVersions with the removed entry copying the looked-up new version
\* instead of null (the property shorthand newVersion, as in the changed entry)
compareVersions_RemovedKeepsNew(old, new, ecosystem, file, dependencyType) ==
    LET updatesAndRemovals == [i \in 1..Len(old) |->
            LET name == old[i][1]
                oldV == old[i][2]
                newV == MapGet(new, name)
            IN  IF Falsy(newV)
                THEN <<[name |-> name, ecosystem |-> ecosystem, file |-> file,
                        oldVersion |-> oldV, newVersion |-> newV,
                        changeType |-> "removed", dependencyType |-> dependencyType]>>
                ELSE IF cleanVersion(oldV) # cleanVersion(newV)
                THEN <<[name |-> name, ecosystem |-> ecosystem, file |-> file,
                        oldVersion |-> oldV, newVersion |-> newV,
                        changeType |-> determineChangeType(oldV, newV),
                        dependencyType |-> dependencyType]>>
                ELSE <<>>]
        additions == [i \in 1..Len(new) |->
            IF ~MapHas(old, new[i][1])
            THEN <<[name |-> new[i][1], ecosystem |-> ecosystem, file |-> file,
                    oldVersion |-> NULL, newVersion |-> new[i][2],
                    changeType |-> "added", dependencyType |-> dependencyType]>>
            ELSE <<>>]
    IN  Flatten(updatesAndRemovals) \o Flatten(additions)

compareVersions(old, new, ecosystem, file, dependencyType) ==
    LET updatesAndRemovals == [i \in 1..Len(old) |->
            LET name == old[i][1]
                oldV == old[i][2]
                newV == MapGet(new, name)
            IN  IF Falsy(newV)
                THEN <<[name |-> name, ecosystem |-> ecosystem, file |-> file,
                        oldVersion |-> oldV, newVersion |-> NULL,
                        changeType |-> "removed", dependencyType |-> dependencyType]>>
                ELSE IF cleanVersion(oldV) # cleanVersion(newV)
                THEN <<[name |-> name, ecosystem |-> ecosystem, file |-> file,
                        oldVersion |-> oldV, newVersion |-> newV,
                        changeType |-> determineChangeType(oldV, newV),
                        dependencyType |-> dependencyType]>>
                ELSE <<>>]
        additions == [i \in 1..Len(new) |->
            IF ~MapHas(old, new[i][1])
            THEN <<[name |-> new[i][1], ecosystem |-> ecosystem, file |-> file,
                    oldVersion |-> NULL, newVersion |-> new[i][2],
                    changeType |-> "added", dependencyType |-> dependencyType]>>
            ELSE <<>>]
    IN  Flatten(updatesAndRemovals) \o Flatten(additions)

(***************************************************************************)
(* The parser registry (parsers/index.ts)                                  *)
(***************************************************************************)
DEPENDENCY_FILE_PATTERNS == <<
    [ecosystem |-> <<"n", "o", "d", "e">>,
     fileNames |-> <<<<"p", "a", "c", "k", "a", "g", "e", ".", "j", "s", "o", "n">>>>,
     extensions |-> <<>>,
     parser |-> "parsePackageJson"],
    [ecosystem |-> <<"n", "o", "d", "e">>,
     fileNames |-> <<<<"p", "a", "c", "k", "a", "g", "e", "-", "l", "o", "c", "k", ".", "j", "s", "o", "n">>>>,
     extensions |-> <<>>,
     parser |-> "parsePackageLockJson"],
    [ecosystem |-> <<"n", "o", "d", "e">>,
     fileNames |-> <<<<"y", "a", "r", "n", ".", "l", "o", "c", "k">>>>,
     extensions |-> <<>>,
     parser |-> "parseYarnLock"],
    [ecosystem |-> <<"n", "o", "d", "e">>,
     fileNames |-> <<<<"p", "n", "p", "m", "-", "l", "o", "c", "k", ".", "y", "a", "m", "l">>>>,
     extensions |-> <<>>,
     parser |-> "parsePnpmLock"],
    [ecosystem |-> <<"p", "y", "t", "h", "o", "n">>,
     fileNames |-> <<<<"r", "e", "q", "u", "i", "r", "e", "m", "e", "n", "t", "s", ".", "t", "x", "t">>,
                      <<"r", "e", "q", "u", "i", "r", "e", "m", "e", "n", "t", "s", "-", "d", "e", "v", ".", "t", "x", "t">>,
                      <<"r", "e", "q", "u", "i", "r", "e", "m", "e", "n", "t", "s", "-", "t", "e", "s", "t", ".", "t", "x", "t">>>>,
     extensions |-> <<>>,
     parser |-> "parseRequirementsTxt"],
    [ecosystem |-> <<"p", "y", "t", "h", "o", "n">>,
     fileNames |-> <<<<"p", "y", "p", "r", "o", "j", "e", "c", "t", ".", "t", "o", "m", "l">>>>,
     extensions |-> <<>>,
     parser |-> "parsePyprojectToml"],
    [ecosystem |-> <<"p", "y", "t", "h", "o", "n">>,
     fileNames |-> <<<<"P", "i", "p", "f", "i", "l", "e">>>>,
     extensions |-> <<>>,
     parser |-> "parsePipfile"],
    [ecosystem |-> <<"p", "y", "t", "h", "o", "n">>,
     fileNames |-> <<<<"p", "o", "e", "t", "r", "y", ".", "l", "o", "c", "k">>,
                      <<"P", "i", "p", "f", "i", "l", "e", ".", "l", "o", "c", "k">>>>,
     extensions |-> <<>>,
     parser |-> "parsePoetryLock"],
    [ecosystem |-> <<"g", "o">>,
     fileNames |-> <<<<"g", "o", ".", "m", "o", "d">>>>,
     extensions |-> <<>>,
     parser |-> "parseGoMod"],
    [ecosystem |-> <<"g", "o">>,
     fileNames |-> <<<<"g", "o", ".", "s", "u", "m">>>>,
     extensions |-> <<>>,
     parser |-> "parseGoSum"],
    [ecosystem |-> <<"r", "u", "b", "y">>,
     fileNames |-> <<<<"G", "e", "m", "f", "i", "l", "e">>>>,
     extensions |-> <<>>,
     parser |-> "parseGemfile"],
    [ecosystem |-> <<"r", "u", "b", "y">>,
     fileNames |-> <<<<"G", "e", "m", "f", "i", "l", "e", ".", "l", "o", "c", "k">>>>,
     extensions |-> <<>>,
     parser |-> "parseGemfileLock"],
    [ecosystem |-> <<"j", "a", "v", "a">>,
     fileNames |-> <<<<"p", "o", "m", ".", "x", "m", "l">>>>,
     extensions |-> <<>>,
     parser |-> "parsePomXml"],
    [ecosystem |-> <<"j", "a", "v", "a">>,
     fileNames |-> <<<<"b", "u", "i", "l", "d", ".", "g", "r", "a", "d", "l", "e">>,
                      <<"b", "u", "i", "l", "d", ".", "g", "r", "a", "d", "l", "e", ".", "k", "t", "s">>>>,
     extensions |-> <<<<".", "g", "r", "a", "d", "l", "e">>,
                      <<".", "g", "r", "a", "d", "l", "e", ".", "k", "t", "s">>>>,
     parser |-> "parseBuildGradle"],
    [ecosystem |-> <<"r", "u", "s", "t">>,
     fileNames |-> <<<<"C", "a", "r", "g", "o", ".", "t", "o", "m", "l">>>>,
     extensions |-> <<>>,
     parser |-> "parseCargoToml"],
    [ecosystem |-> <<"r", "u", "s", "t">>,
     fileNames |-> <<<<"C", "a", "r", "g", "o", ".", "l", "o", "c", "k">>>>,
     extensions |-> <<>>,
     parser |-> "parseCargoLock"],
    [ecosystem |-> <<"d", "o", "t", "n", "e", "t">>,
     fileNames |-> <<<<"p", "a", "c", "k", "a", "g", "e", "s", ".", "c", "o", "n", "f", "i", "g">>>>,
     extensions |-> <<<<".", "c", "s", "p", "r", "o", "j">>,
                      <<".", "f", "s", "p", "r", "o", "j">>,
                      <<".", "v", "b", "p", "r", "o", "j">>>>,
     parser |-> "parseCsproj"]
>>

\* s.includes(sub)
Includes(s, sub) ==
    \E i \in 0..(Len(s) - Len(sub)) : SubSeq(s, i + 1, i + Len(sub)) = sub

\* s.endsWith(suffix)
EndsWith(s, suffix) ==
    Len(suffix) <= Len(s) /\ SubSeq(s, Len(s) - Len(suffix) + 1, Len(s)) = suffix

SeqIncludes(xs, x) == \E i \in 1..Len(xs) : xs[i] = x

\* filePath.split('/').pop() || ''
FileName(filePath) ==
    LET parts == Split(filePath, "/") IN parts[Len(parts)]

NoParser == [found |-> FALSE]

PatternMatches(pattern, fileName) ==
    \/ SeqIncludes(pattern.fileNames, fileName)
    \/ \E k \in 1..Len(pattern.extensions) : EndsWith(fileName, pattern.extensions[k])

\* a lookup that knows the listed file names only
getParserForFile_NamesOnly(filePath) ==
    LET fileName == FileName(filePath)
        hits == {i \in 1..Len(DEPENDENCY_FILE_PATTERNS) :
                    SeqIncludes(DEPENDENCY_FILE_PATTERNS[i].fileNames, fileName)}
    IN  IF hits = {} THEN NoParser
        ELSE LET first == CHOOSE i \in hits : \A j \in hits : i <= j
             IN  [found |-> TRUE,
                  path |-> filePath,
                  ecosystem |-> DEPENDENCY_FILE_PATTERNS[first].ecosystem,
                  parser |-> DEPENDENCY_FILE_PATTERNS[first].parser]

\* the first pattern, in table order, that lists the file name or one of whose
\* extensions ends it; null when there is none
getParserForFile(filePath) ==
    LET fileName == FileName(filePath)
        hits == {i \in 1..Len(DEPENDENCY_FILE_PATTERNS) :
                    PatternMatches(DEPENDENCY_FILE_PATTERNS[i], fileName)}
    IN  IF hits = {} THEN NoParser
        ELSE LET first == CHOOSE i \in hits : \A j \in hits : i <= j
             IN  [found |-> TRUE,
                  path |-> filePath,
                  ecosystem |-> DEPENDENCY_FILE_PATTERNS[first].ecosystem,
                  parser |-> DEPENDENCY_FILE_PATTERNS[first].parser]

(***************************************************************************)
(* deduplicateChanges.  The Map seen is the sequence of its entries        *)
(* <<key, change>> in insertion order; set on a present key keeps its      *)
(* place.                                                                  *)
(***************************************************************************)
\* the key built from the name alone, the ecosystem left out
ChangeKey_NameOnly(change) == change.name

\* `${change.ecosystem}:${change.name}`
ChangeKey(change) == change.ecosystem \o <<":">> \o change.name

\* change.file.includes('lock') || change.file.includes('.lock')
IsLockFile(file) ==
    \/ Includes(file, <<"l", "o", "c", "k">>)
    \/ Includes(file, <<".", "l", "o", "c", "k">>)

MapSet(m, key, value) ==
    IF MapHas(m, key)
    THEN [i \in 1..Len(m) |-> IF m[i][1] = key THEN <<key, value>> ELSE m[i]]
    ELSE Append(m, <<key, value>>)

MapValues(m) == [i \in 1..Len(m) |-> m[i][2]]

\* for (const [name, version] of parsed.dependencies) existing.set(name, version)
RECURSIVE SetAll(_, _)
SetAll(existing, entries) ==
    IF Len(entries) = 0 THEN existing
    ELSE SetAll(MapSet(existing, Head(entries)[1], Head(entries)[2]), Tail(entries))

\* the loop without the replacement branch: the first change of a key stays
RECURSIVE DeduplicateLoop_KeepFirst(_, _)
DeduplicateLoop_KeepFirst(seen, rest) ==
    IF Len(rest) = 0 THEN seen
    ELSE LET change == Head(rest)
             key == ChangeKey(change)
         IN  IF ~MapHas(seen, key)
             THEN DeduplicateLoop_KeepFirst(MapSet(seen, key, change), Tail(rest))
             ELSE DeduplicateLoop_KeepFirst(seen, Tail(rest))

\* the Map after the loop over the changes not yet visited
RECURSIVE DeduplicateLoop(_, _)
DeduplicateLoop(seen, rest) ==
    IF Len(rest) = 0 THEN seen
    ELSE LET change == Head(rest)
             key == ChangeKey(change)
         IN  IF ~MapHas(seen, key)
             THEN DeduplicateLoop(MapSet(seen, key, change), Tail(rest))
             ELSE LET existing == MapGet(seen, key)
                      isLockFile == IsLockFile(change.file)
                      existingIsLockFile == IsLockFile(existing.file)
                  IN  IF existingIsLockFile /\ ~isLockFile
                      THEN DeduplicateLoop(MapSet(seen, key, change), Tail(rest))
                      ELSE DeduplicateLoop(seen, Tail(rest))

deduplicateChanges(chs) == MapValues(DeduplicateLoop(<<>>, chs))

(***************************************************************************)
(* Values and outcomes.  A value that is no string is a sequence that      *)
(* starts with the name of its type: NULL, UNDEFINED, a number, an object  *)
(* (followed by the characters of its version property, if it has one).    *)
(* The body of a parser either returns groups or throws; the try/catch     *)
(* around it turns a throw into the empty list.                            *)
(***************************************************************************)
TypeTags == {"null", "undefined", "number", "object"}
\* typeof value === 'string'
IsString(value) == Len(value) = 0 \/ Head(value) \notin TypeTags
NumberOne == <<"number", "1">>
\* value.version of an object
VersionProperty(value) ==
    IF Len(value) > 1 /\ Head(value) = "object" THEN Tail(value) ELSE UNDEFINED

Returned(groups) == [threw |-> FALSE, groups |-> groups]
Thrown == [threw |-> TRUE, groups |-> <<>>]

\* a parser whose catch block would rethrow
Catch_Rethrow(outcome) == [raised |-> outcome.threw, groups |-> outcome.groups]

\* try { body } catch { return [] }
Catch(outcome) ==
    [raised |-> FALSE, groups |-> IF outcome.threw THEN <<>> ELSE outcome.groups]

\* a section of a JSON, TOML or YAML document: a property that is missing,
\* or an object with its entries in order
NoSection == [defined |-> FALSE, entries |-> <<>>]
Section(entries) == [defined |-> TRUE, entries |-> entries]

(***************************************************************************)
(* Parsers.  A parser returns a sequence of groups                         *)
(* [dependencies |-> Map, dependencyType |-> type], empty when it found    *)
(* nothing or when it caught an exception.                                 *)
(***************************************************************************)
\* the character class \w
WordChars == Letter \cup Digit \cup {"_"}

\* the position after the run of characters of S that starts at i
RECURSIVE RunEnd(_, _, _)
RunEnd(s, S, i) ==
    IF i <= Len(s) /\ s[i] \in S THEN RunEnd(s, S, i + 1) ELSE i

\* s.startsWith(prefix)
StartsWith(s, prefix) ==
    Len(prefix) <= Len(s) /\ SubSeq(s, 1, Len(prefix)) = prefix

NoMatch == [matched |-> FALSE]

\* the match of (\S+)\s+(v[\d.]+[\w.-]*) with \S+ starting at position i
ModuleVersionMatch(s, i) ==
    LET e1 == IndexOfAny(s, WhiteSpace, i)
        e2 == RunEnd(s, WhiteSpace, e1)
        e3 == RunEnd(s, WordChars \cup {".", "-"}, e2 + 1)
    IN  IF /\ e1 > i
           /\ e2 > e1
           /\ e2 + 1 <= Len(s)
           /\ s[e2] = "v"
           /\ s[e2 + 1] \in Digit \cup {"."}
        THEN [matched |-> TRUE,
              module |-> SubSeq(s, i, e1 - 1),
              version |-> SubSeq(s, e2, e3 - 1)]
        ELSE NoMatch

\* trimmed.match(/^(\S+)\s+(v[\d.]+[\w.-]*)/), trimmed not empty
BlockRequireMatch(trimmed) == ModuleVersionMatch(trimmed, 1)

\* trimmed.match(/^require\s+(\S+)\s+(v[\d.]+[\w.-]*)/)
SingleRequireMatch(trimmed) ==
    LET keyword == <<"r", "e", "q", "u", "i", "r", "e">>
        start == RunEnd(trimmed, WhiteSpace, Len(keyword) + 1)
    IN  IF StartsWith(trimmed, keyword) /\ start > Len(keyword) + 1
        THEN ModuleVersionMatch(trimmed, start)
        ELSE NoMatch

IndirectComment == <<"/", "/", " ", "i", "n", "d", "i", "r", "e", "c", "t">>

\* the loop of parseGoMod that reports the indirect entries as well
RECURSIVE GoModLoop_KeepIndirect(_, _, _)
GoModLoop_KeepIndirect(deps, lines, inRequireBlock) ==
    IF Len(lines) = 0 THEN deps
    ELSE LET line == Head(lines)
             trimmed == Trim(line)
         IN  IF trimmed = <<>> \/ StartsWith(trimmed, <<"/", "/">>)
             THEN GoModLoop_KeepIndirect(deps, Tail(lines), inRequireBlock)
             ELSE IF trimmed = <<"r", "e", "q", "u", "i", "r", "e", " ", "(">>
             THEN GoModLoop_KeepIndirect(deps, Tail(lines), TRUE)
             ELSE IF trimmed = <<")">>
             THEN GoModLoop_KeepIndirect(deps, Tail(lines), FALSE)
             ELSE LET requireMatch == IF inRequireBlock
                                      THEN BlockRequireMatch(trimmed)
                                      ELSE SingleRequireMatch(trimmed)
                  IN  IF requireMatch.matched
                      THEN GoModLoop_KeepIndirect(
                               MapSet(deps, requireMatch.module, requireMatch.version),
                               Tail(lines), inRequireBlock)
                      ELSE GoModLoop_KeepIndirect(deps, Tail(lines), inRequireBlock)

\* the Map after the loop of parseGoMod over the lines not yet visited
RECURSIVE GoModLoop(_, _, _)
GoModLoop(deps, lines, inRequireBlock) ==
    IF Len(lines) = 0 THEN deps
    ELSE LET line == Head(lines)
             trimmed == Trim(line)
         IN  IF trimmed = <<>> \/ StartsWith(trimmed, <<"/", "/">>)
             THEN GoModLoop(deps, Tail(lines), inRequireBlock)
             ELSE IF trimmed = <<"r", "e", "q", "u", "i", "r", "e", " ", "(">>
             THEN GoModLoop(deps, Tail(lines), TRUE)
             ELSE IF trimmed = <<")">>
             THEN GoModLoop(deps, Tail(lines), FALSE)
             ELSE LET requireMatch == IF inRequireBlock
                                      THEN BlockRequireMatch(trimmed)
                                      ELSE SingleRequireMatch(trimmed)
                  IN  IF requireMatch.matched /\ ~Includes(line, IndirectComment)
                      THEN GoModLoop(MapSet(deps, requireMatch.module, requireMatch.version),
                                     Tail(lines), inRequireBlock)
                      ELSE GoModLoop(deps, Tail(lines), inRequireBlock)

parseGoModBody(text) ==
    LET deps == GoModLoop(<<>>, Split(text, "\n"), FALSE)
    IN  IF Len(deps) = 0 THEN Returned(<<>>)
        ELSE Returned(<<[dependencies |-> deps, dependencyType |-> "production"]>>)

parseGoMod(text) == Catch(parseGoModBody(text))

(***************************************************************************)
(* parsePomXml.  The text is handed to xml2js; the model takes what xml2js *)
(* makes of it: whether it is well-formed XML, its root element, and the   *)
(* <dependency> elements of <dependencies> and of <dependencyManagement>,  *)
(* each with the text of its child elements (UNDEFINED for a missing       *)
(* child, XmlObject for a child that carries attributes).                  *)
(***************************************************************************)
XmlObject == <<"object">>
Truthy(value) == ~Falsy(value)

\* `${groupId}:${artifactId}`
PomName(dep) == dep.groupId \o <<":">> \o dep.artifactId

\* groupId && artifactId && version
PomComplete(dep) == Truthy(dep.groupId) /\ Truthy(dep.artifactId) /\ Truthy(dep.version)

\* version.startsWith('${')
IsPropertyReference(ver) == StartsWith(ver, <<"$", "{">>)

\* version.startsWith is not a function
PomThrows(deps) ==
    \E i \in 1..Len(deps) : PomComplete(deps[i]) /\ deps[i].version = XmlObject

\* the loop over the direct dependencies; maps is [prodDeps, testDeps]
RECURSIVE PomDirectLoop(_, _)
PomDirectLoop(maps, deps) ==
    IF Len(deps) = 0 THEN maps
    ELSE LET dep == Head(deps)
         IN  IF ~PomComplete(dep) \/ IsPropertyReference(dep.version)
             THEN PomDirectLoop(maps, Tail(deps))
             ELSE IF dep.scope = <<"t", "e", "s", "t">>
             THEN PomDirectLoop([maps EXCEPT !.testDeps = MapSet(@, PomName(dep), dep.version)],
                                Tail(deps))
             ELSE PomDirectLoop([maps EXCEPT !.prodDeps = MapSet(@, PomName(dep), dep.version)],
                                Tail(deps))

\* the loop over the managed dependencies without the test for ${
RECURSIVE PomManagedLoop_KeepReferences(_, _)
PomManagedLoop_KeepReferences(maps, deps) ==
    IF Len(deps) = 0 THEN maps
    ELSE LET dep == Head(deps)
             name == PomName(dep)
         IN  IF ~PomComplete(dep)
             THEN PomManagedLoop_KeepReferences(maps, Tail(deps))
             ELSE IF ~MapHas(maps.prodDeps, name) /\ ~MapHas(maps.testDeps, name)
             THEN PomManagedLoop_KeepReferences(
                      [maps EXCEPT !.prodDeps = MapSet(@, name, dep.version)], Tail(deps))
             ELSE PomManagedLoop_KeepReferences(maps, Tail(deps))

\* the loop over the managed dependencies
RECURSIVE PomManagedLoop(_, _)
PomManagedLoop(maps, deps) ==
    IF Len(deps) = 0 THEN maps
    ELSE LET dep == Head(deps)
             name == PomName(dep)
         IN  IF ~PomComplete(dep) \/ IsPropertyReference(dep.version)
             THEN PomManagedLoop(maps, Tail(deps))
             ELSE IF ~MapHas(maps.prodDeps, name) /\ ~MapHas(maps.testDeps, name)
             THEN PomManagedLoop([maps EXCEPT !.prodDeps = MapSet(@, name, dep.version)],
                                 Tail(deps))
             ELSE PomManagedLoop(maps, Tail(deps))

\* results.push of every group, with or without entries
GroupsOf_KeepEmpty(typedMaps) ==
    [i \in 1..Len(typedMaps) |->
        [dependencies |-> typedMaps[i][2], dependencyType |-> typedMaps[i][1]]]

\* if (deps.size > 0) results.push({ dependencies: deps, dependencyType })
GroupsOf(typedMaps) ==
    Flatten([i \in 1..Len(typedMaps) |->
                IF Len(typedMaps[i][2]) > 0
                THEN <<[dependencies |-> typedMaps[i][2], dependencyType |-> typedMaps[i][1]]>>
                ELSE <<>>])

parsePomXmlBody(xml) ==
    IF ~xml.wellFormed \/ xml.root # "project" THEN Returned(<<>>)
    ELSE IF PomThrows(xml.dependencies) \/ PomThrows(xml.dependencyManagement) THEN Thrown
    ELSE LET direct == PomDirectLoop([prodDeps |-> <<>>, testDeps |-> <<>>], xml.dependencies)
             maps == PomManagedLoop(direct, xml.dependencyManagement)
         IN  Returned(GroupsOf(<< <<"production", maps.prodDeps>>,
                                  <<"test", maps.testDeps>> >>))

parsePomXml(xml) == Catch(parsePomXmlBody(xml))

(***************************************************************************)
(* The parsers that read their file line by line (go.sum, Gemfile,         *)
(* Gemfile.lock, requirements.txt, yarn.lock) or with global patterns      *)
(* (build.gradle)                                                          *)
(***************************************************************************)
\* the character class [a-zA-Z0-9_-]
NameChars == Letter \cup Digit \cup {"_", "-"}
Quotes == {"'", "\""}
Star == <<"*">>

Capitals == <<"A", "B", "C", "D", "E", "F", "G", "H", "I", "J", "K", "L", "M",
              "N", "O", "P", "Q", "R", "S", "T", "U", "V", "W", "X", "Y", "Z">>
Smalls == <<"a", "b", "c", "d", "e", "f", "g", "h", "i", "j", "k", "l", "m",
            "n", "o", "p", "q", "r", "s", "t", "u", "v", "w", "x", "y", "z">>
\* the character class [A-Z]
IsCapital(c) == \E i \in 1..Len(Capitals) : Capitals[i] = c

\* s.toLowerCase()
LowerChar(c) ==
    IF IsCapital(c) THEN Smalls[CHOOSE i \in 1..Len(Capitals) : Capitals[i] = c] ELSE c
ToLowerCase(s) == [i \in 1..Len(s) |-> LowerChar(s[i])]

\* s.substring(i - 1): the part of s from position i on
From(s, i) == SubSeq(s, i, Len(s))

\* trimmed.match(/^(\S+)\s+(v[\d.]+[\w.-]*)(?:\/go\.mod)?\s+/)
GoSumMatch(trimmed) ==
    LET found == ModuleVersionMatch(trimmed, 1)
        versionStart == RunEnd(trimmed, WhiteSpace, Len(found.module) + 1)
        after == From(trimmed, versionStart + Len(found.version))
        goMod == <<"/", "g", "o", ".", "m", "o", "d">>
        rest == IF StartsWith(after, goMod) /\ Len(after) > Len(goMod)
                   /\ after[Len(goMod) + 1] \in WhiteSpace
                THEN From(after, Len(goMod) + 1)
                ELSE after
    IN  IF found.matched /\ rest # <<>> /\ Head(rest) \in WhiteSpace THEN found ELSE NoMatch

\* the loop of parseGoSum: the first version seen for a module stays
RECURSIVE GoSumLoop(_, _)
GoSumLoop(deps, lines) ==
    IF Len(lines) = 0 THEN deps
    ELSE LET trimmed == Trim(Head(lines))
             found == GoSumMatch(trimmed)
         IN  IF trimmed # <<>> /\ found.matched /\ ~MapHas(deps, found.module)
             THEN GoSumLoop(MapSet(deps, found.module, found.version), Tail(lines))
             ELSE GoSumLoop(deps, Tail(lines))

\* trimmed.match(/^group\s+:(?:development|test)/)
GemfileGroupMatch(trimmed) ==
    LET keyword == <<"g", "r", "o", "u", "p">>
        colon == RunEnd(trimmed, WhiteSpace, Len(keyword) + 1)
        name == From(trimmed, colon + 1)
    IN  /\ StartsWith(trimmed, keyword)
        /\ colon > Len(keyword) + 1
        /\ colon <= Len(trimmed) /\ trimmed[colon] = ":"
        /\ \/ StartsWith(name, <<"d", "e", "v", "e", "l", "o", "p", "m", "e", "n", "t">>)
           \/ StartsWith(name, <<"t", "e", "s", "t">>)

\* the match of ['"]([^'"]+)['"] at position i: the text between the quotes
\* and the position after the closing quote
QuotedMatch(s, i) ==
    LET close == IndexOfAny(s, Quotes, i + 1)
    IN  IF i <= Len(s) /\ s[i] \in Quotes /\ close > i + 1 /\ close <= Len(s)
        THEN [matched |-> TRUE, text |-> SubSeq(s, i + 1, close - 1), end |-> close + 1]
        ELSE NoMatch

\* trimmed.match(/^gem\s+['"]([^'"]+)['"]\s*(?:,\s*['"]([^'"]+)['"])?/), with
\* gemMatch[2] || '*'
GemMatch(trimmed) ==
    LET keyword == <<"g", "e", "m">>
        start == RunEnd(trimmed, WhiteSpace, Len(keyword) + 1)
        name == QuotedMatch(trimmed, start)
        comma == RunEnd(trimmed, WhiteSpace, name.end)
        requirement == QuotedMatch(trimmed, RunEnd(trimmed, WhiteSpace, comma + 1))
    IN  IF StartsWith(trimmed, keyword) /\ start > Len(keyword) + 1 /\ name.matched
        THEN [matched |-> TRUE,
              name |-> name.text,
              version |-> IF comma <= Len(trimmed) /\ trimmed[comma] = ","
                             /\ requirement.matched
                          THEN requirement.text
                          ELSE Star]
        ELSE NoMatch

\* the loop of parseGemfile: the gems of a development or test group go to
\* devDeps, the others to deps
RECURSIVE GemfileLoop(_, _, _)
GemfileLoop(maps, lines, inDevGroup) ==
    IF Len(lines) = 0 THEN maps
    ELSE LET trimmed == Trim(Head(lines))
             gemMatch == GemMatch(trimmed)
         IN  IF trimmed = <<>> \/ StartsWith(trimmed, <<"#">>)
             THEN GemfileLoop(maps, Tail(lines), inDevGroup)
             ELSE IF GemfileGroupMatch(trimmed)
             THEN GemfileLoop(maps, Tail(lines), TRUE)
             ELSE IF trimmed = <<"e", "n", "d">>
             THEN GemfileLoop(maps, Tail(lines), FALSE)
             ELSE IF ~gemMatch.matched
             THEN GemfileLoop(maps, Tail(lines), inDevGroup)
             ELSE IF inDevGroup
             THEN GemfileLoop([maps EXCEPT !.devDeps =
                                   MapSet(@, gemMatch.name, gemMatch.version)],
                              Tail(lines), inDevGroup)
             ELSE GemfileLoop([maps EXCEPT !.deps =
                                   MapSet(@, gemMatch.name, gemMatch.version)],
                              Tail(lines), inDevGroup)

\* line.match(/^\s{4}([a-zA-Z0-9_-]+)\s+\(([^)]+)\)/)
SpecLineMatch(line) ==
    LET nameEnd == RunEnd(line, NameChars, 5)
        open == RunEnd(line, WhiteSpace, nameEnd)
        close == IndexOfAny(line, {")"}, open + 1)
    IN  IF /\ Len(line) > 4
           /\ \A i \in 1..4 : line[i] \in WhiteSpace
           /\ nameEnd > 5
           /\ open > nameEnd
           /\ open <= Len(line) /\ line[open] = "("
           /\ close > open + 1 /\ close <= Len(line)
        THEN [matched |-> TRUE,
              name |-> SubSeq(line, 5, nameEnd - 1),
              version |-> SubSeq(line, open + 1, close - 1)]
        ELSE NoMatch

\* the loop of parseGemfileLock: the gems of the specs: sections
RECURSIVE GemfileLockLoop(_, _, _)
GemfileLockLoop(deps, lines, inSpecs) ==
    IF Len(lines) = 0 THEN deps
    ELSE LET line == Head(lines)
             found == SpecLineMatch(line)
         IN  IF Trim(line) = <<"s", "p", "e", "c", "s", ":">>
             THEN GemfileLockLoop(deps, Tail(lines), TRUE)
             ELSE IF inSpecs /\ line # <<>> /\ IsCapital(Head(line))
             THEN GemfileLockLoop(deps, Tail(lines), FALSE)
             ELSE IF inSpecs /\ found.matched
             THEN GemfileLockLoop(MapSet(deps, found.name, found.version), Tail(lines), inSpecs)
             ELSE GemfileLockLoop(deps, Tail(lines), inSpecs)

\* trimmed.match(/^([a-zA-Z0-9_-]+(?:\[[^\]]+\])?)\s*([=<>!~]+)\s*([^\s;#]+)/),
\* the name without its extras
RequirementMatch(trimmed) ==
    LET nameEnd == RunEnd(trimmed, NameChars, 1)
        close == IndexOfAny(trimmed, {"]"}, nameEnd + 1)
        extrasEnd == IF nameEnd <= Len(trimmed) /\ trimmed[nameEnd] = "["
                        /\ close > nameEnd + 1 /\ close <= Len(trimmed)
                     THEN close + 1
                     ELSE nameEnd
        operator == RunEnd(trimmed, WhiteSpace, extrasEnd)
        operatorEnd == RunEnd(trimmed, {"=", "<", ">", "!", "~"}, operator)
        start == RunEnd(trimmed, WhiteSpace, operatorEnd)
        end == IndexOfAny(trimmed, WhiteSpace \cup {";", "#"}, start)
    IN  IF nameEnd > 1 /\ operatorEnd > operator /\ end > start
        THEN [matched |-> TRUE,
              name |-> SubSeq(trimmed, 1, nameEnd - 1),
              version |-> SubSeq(trimmed, start, end - 1)]
        ELSE NoMatch

\* the loop of parseRequirementsTxt: comments, options, URLs and paths are
\* skipped; a requirement without specifier gets '*'
RECURSIVE RequirementsLoop(_, _)
RequirementsLoop(deps, lines) ==
    IF Len(lines) = 0 THEN deps
    ELSE LET trimmed == Trim(Head(lines))
             found == RequirementMatch(trimmed)
             nameEnd == RunEnd(trimmed, NameChars, 1)
         IN  IF \/ trimmed = <<>>
                \/ Head(trimmed) \in {"#", "-", ".", "/"}
                \/ Includes(trimmed, <<":", "/", "/">>)
             THEN RequirementsLoop(deps, Tail(lines))
             ELSE IF found.matched
             THEN RequirementsLoop(MapSet(deps, ToLowerCase(found.name), found.version),
                                   Tail(lines))
             ELSE IF nameEnd > 1
             THEN RequirementsLoop(MapSet(deps, ToLowerCase(SubSeq(trimmed, 1, nameEnd - 1)),
                                          Star),
                                   Tail(lines))
             ELSE RequirementsLoop(deps, Tail(lines))

\* the positions of the character c in s
IndicesOf(s, c) == {i \in 1..Len(s) : s[i] = c}
Min(S) == CHOOSE i \in S : \A j \in S : i <= j
Max(S) == CHOOSE i \in S : \A j \in S : j <= i

\* the package a header line of yarn.lock names: the line without quotes and
\* colons up to its last @, or up to its second @ when it starts with one;
\* the package stays what it was when there is none
YarnPackage(line, currentPackage) ==
    LET cleanLine == Trim(SelectSeq(line, LAMBDA c : c \notin {"\"", "'", ":"}))
        ats == IndicesOf(cleanLine, "@")
    IN  IF ats = {} \/ Max(ats) = 1 THEN currentPackage
        ELSE IF Head(cleanLine) = "@" THEN SubSeq(cleanLine, 1, Min(ats \ {1}) - 1)
        ELSE SubSeq(cleanLine, 1, Max(ats) - 1)

\* line.match(/version\s+"?([^"\s]+)"?/): the leftmost match
YarnVersionMatch(line) ==
    LET keyword == <<"v", "e", "r", "s", "i", "o", "n">>
        startOf(i) == LET afterSpace == RunEnd(line, WhiteSpace, i + Len(keyword))
                      IN  IF afterSpace <= Len(line) /\ line[afterSpace] = "\""
                          THEN afterSpace + 1
                          ELSE afterSpace
        endOf(i) == IndexOfAny(line, WhiteSpace \cup {"\""}, startOf(i))
        hits == {i \in 1..Len(line) :
                    /\ StartsWith(From(line, i), keyword)
                    /\ RunEnd(line, WhiteSpace, i + Len(keyword)) > i + Len(keyword)
                    /\ endOf(i) > startOf(i)}
    IN  IF hits = {} THEN NoMatch
        ELSE [matched |-> TRUE,
              version |-> SubSeq(line, startOf(Min(hits)), endOf(Min(hits)) - 1)]

\* the loop of parseYarnLock; currentPackage is the empty string for null
RECURSIVE YarnLockLoop(_, _, _)
YarnLockLoop(deps, lines, currentPackage) ==
    IF Len(lines) = 0 THEN deps
    ELSE LET line == Head(lines)
             package == IF line # <<>> /\ Head(line) \notin {" ", "#"}
                           /\ Includes(line, <<"@">>)
                        THEN YarnPackage(line, currentPackage)
                        ELSE currentPackage
             versionMatch == YarnVersionMatch(line)
         IN  IF package # <<>> /\ StartsWith(Trim(line), <<"v", "e", "r", "s", "i", "o", "n">>)
                /\ versionMatch.matched
             THEN YarnLockLoop(IF MapHas(deps, package) THEN deps
                               ELSE MapSet(deps, package, versionMatch.version),
                               Tail(lines), <<>>)
             ELSE YarnLockLoop(deps, Tail(lines), package)

\* if (deps.size === 0) return []; otherwise one production group
ProductionOf(deps) ==
    IF Len(deps) = 0 THEN <<>>
    ELSE <<[dependencies |-> deps, dependencyType |-> "production"]>>

parseGoSum(text) ==
    Catch(
        Returned(ProductionOf(GoSumLoop(<<>>, Split(text, "\n")))))

parseGemfile(text) ==
    Catch(
        LET maps == GemfileLoop([deps |-> <<>>, devDeps |-> <<>>], Split(text, "\n"), FALSE)
        IN  Returned(GroupsOf(<< <<"production", maps.deps>>,
                                 <<"development", maps.devDeps>> >>)))

parseGemfileLock(text) ==
    Catch(
        Returned(ProductionOf(GemfileLockLoop(<<>>, Split(text, "\n"), FALSE))))

parseRequirementsTxt(text) ==
    Catch(
        Returned(ProductionOf(RequirementsLoop(<<>>, Split(text, "\n")))))

parseYarnLock(text) ==
    Catch(
        Returned(ProductionOf(YarnLockLoop(<<>>, Split(text, "\n"), <<>>))))

(***************************************************************************)
(* parseBuildGradle: four patterns run over the whole content, the Groovy  *)
(* ones first.                                                             *)
(***************************************************************************)
\* the character class \s of a pattern that runs over the whole content
Space == WhiteSpace \cup {"\n"}
CoordinateChars == WordChars \cup {".", "-"}

\* the match of ['"]([\w.-]+):([\w.-]+):([\w.-]+)['"] at position i: what
\* stands between the quotes is three runs of [\w.-] with a colon between
\* them; the name is the first two
CoordinatesMatch(s, i) ==
    IF i <= Len(s) /\ s[i] \in Quotes
    THEN CHOOSE found \in
             {IF /\ i + Len(inner) + 1 <= Len(s)
                 /\ s[i + Len(inner) + 1] \in Quotes
                 /\ Len(Split(inner, ":")) = 3
                 /\ \A k \in 1..3 : Split(inner, ":")[k] # <<>>
              THEN [matched |-> TRUE,
                    name |-> Split(inner, ":")[1] \o <<":">> \o Split(inner, ":")[2],
                    version |-> Split(inner, ":")[3],
                    end |-> i + Len(inner) + 2]
              ELSE NoMatch :
                  inner \in {SubSeq(s, i + 1,
                                    RunEnd(s, CoordinateChars \cup {":"}, i + 1) - 1)}} : TRUE
    ELSE NoMatch

\* \s*\) after the coordinates of the Kotlin patterns
ClosedMatch(s, found) ==
    IF found.matched
    THEN CHOOSE closed \in
             {IF close <= Len(s) /\ s[close] = ")"
              THEN [found EXCEPT !.end = close + 1]
              ELSE NoMatch : close \in {RunEnd(s, Space, found.end)}} : TRUE
    ELSE NoMatch

\* what follows the configuration name, from position j on:
\*   \s*(?:\()?<coordinates>           (the Groovy patterns), or
\*   \s*\(\s*<coordinates>\s*\)        (the Kotlin patterns)
ConfiguredMatch(s, j, kotlin) ==
    CHOOSE found \in
        {IF kotlin
         THEN IF after <= Len(s) /\ s[after] = "("
              THEN ClosedMatch(s, CoordinatesMatch(s, RunEnd(s, Space, after + 1)))
              ELSE NoMatch
         ELSE IF after <= Len(s) /\ s[after] = "("
              THEN CoordinatesMatch(s, after + 1)
              ELSE CoordinatesMatch(s, after) : after \in {RunEnd(s, Space, j)}} : TRUE

\* the match of a pattern at position i: one of its configuration names and
\* what follows it
GradleMatchAt(s, i, configurations, kotlin) ==
    LET hits == {found \in {ConfiguredMatch(s, i + Len(c), kotlin) :
                               c \in {c \in configurations : StartsWith(From(s, i), c)}} :
                    found.matched}
    IN  IF hits = {} THEN NoMatch ELSE CHOOSE found \in hits : TRUE

\* while ((match = pattern.exec(content)) !== null): the matches from
\* position i on, each as a Map entry
RECURSIVE GradleMatches(_, _, _, _)
GradleMatches(s, i, configurations, kotlin) ==
    IF i > Len(s) THEN <<>>
    ELSE LET found == GradleMatchAt(s, i, configurations, kotlin)
         IN  IF found.matched
             THEN <<<<found.name, found.version>>>>
                      \o GradleMatches(s, found.end, configurations, kotlin)
             ELSE GradleMatches(s, i + 1, configurations, kotlin)

ProductionConfigurations ==
    {<<"i", "m", "p", "l", "e", "m", "e", "n", "t", "a", "t", "i", "o", "n">>,
     <<"a", "p", "i">>,
     <<"c", "o", "m", "p", "i", "l", "e">>,
     <<"r", "u", "n", "t", "i", "m", "e", "O", "n", "l", "y">>,
     <<"c", "o", "m", "p", "i", "l", "e", "O", "n", "l", "y">>}
TestConfigurations ==
    {<<"t", "e", "s", "t", "I", "m", "p", "l", "e", "m", "e", "n", "t", "a", "t", "i", "o", "n">>,
     <<"t", "e", "s", "t", "C", "o", "m", "p", "i", "l", "e">>,
     <<"t", "e", "s", "t", "R", "u", "n", "t", "i", "m", "e", "O", "n", "l", "y">>,
     <<"a", "n", "d", "r", "o", "i", "d", "T", "e", "s", "t",
       "I", "m", "p", "l", "e", "m", "e", "n", "t", "a", "t", "i", "o", "n">>}

parseBuildGradle(text) ==
    Catch(
        LET prodDeps == SetAll(SetAll(<<>>, GradleMatches(text, 1, ProductionConfigurations, FALSE)),
                               GradleMatches(text, 1, ProductionConfigurations, TRUE))
            testDeps == SetAll(SetAll(<<>>, GradleMatches(text, 1, TestConfigurations, FALSE)),
                               GradleMatches(text, 1, TestConfigurations, TRUE))
        IN  Returned(GroupsOf(<< <<"production", prodDeps>>, <<"test", testDeps>> >>)))

(***************************************************************************)
(* The parsers of TOML files.  A TOML file is its text, of which the depth *)
(* guard reads the brackets and the quotes, what toml.parse makes of it    *)
(* ("error" when it throws, "object"), and the tables the parser reads.    *)
(* A value of a table is a string or an object.                            *)
(***************************************************************************)
MAX_NESTING_DEPTH == 20
MAX_DEPENDENCIES == 5000

\* the loop of checkNestingDepth in python.ts: every bracket counts
RECURSIVE NestingDepthLoop(_, _, _, _)
NestingDepthLoop(text, i, depth, maxDepth) ==
    IF i > Len(text) THEN TRUE
    ELSE IF text[i] \in {"{", "["}
    THEN IF depth + 1 > maxDepth THEN FALSE
         ELSE NestingDepthLoop(text, i + 1, depth + 1, maxDepth)
    ELSE IF text[i] \in {"}", "]"}
    THEN NestingDepthLoop(text, i + 1, depth - 1, maxDepth)
    ELSE NestingDepthLoop(text, i + 1, depth, maxDepth)

\* checkNestingDepth of python.ts
checkNestingDepthPython(text, maxDepth) == NestingDepthLoop(text, 1, 0, maxDepth)

\* the loop of checkNestingDepth in rust.ts: brackets inside strings do not
\* count, and a closing bracket too many fails; the delimiter is empty
\* outside a string
RECURSIVE StringAwareDepthLoop(_, _, _, _, _, _)
StringAwareDepthLoop(text, i, depth, stringDelimiter, escape, maxDepth) ==
    IF i > Len(text) THEN TRUE
    ELSE LET char == text[i]
             inString == stringDelimiter # <<>>
             triple == <<char, char, char>>
         IN  IF escape
             THEN StringAwareDepthLoop(text, i + 1, depth, stringDelimiter, FALSE, maxDepth)
             ELSE IF char = "\\" /\ inString
             THEN StringAwareDepthLoop(text, i + 1, depth, stringDelimiter, TRUE, maxDepth)
             ELSE IF ~inString /\ char \in Quotes
             THEN IF StartsWith(From(text, i), triple)
                  THEN StringAwareDepthLoop(text, i + 3, depth, triple, FALSE, maxDepth)
                  ELSE StringAwareDepthLoop(text, i + 1, depth, <<char>>, FALSE, maxDepth)
             ELSE IF inString
             THEN IF StartsWith(From(text, i), stringDelimiter)
                  THEN StringAwareDepthLoop(text, i + Len(stringDelimiter), depth, <<>>,
                                            FALSE, maxDepth)
                  ELSE StringAwareDepthLoop(text, i + 1, depth, stringDelimiter, FALSE, maxDepth)
             ELSE IF char \in {"{", "["}
             THEN IF depth + 1 > maxDepth THEN FALSE
                  ELSE StringAwareDepthLoop(text, i + 1, depth + 1, <<>>, FALSE, maxDepth)
             ELSE IF char \in {"}", "]"}
             THEN IF depth - 1 < 0 THEN FALSE
                  ELSE StringAwareDepthLoop(text, i + 1, depth - 1, <<>>, FALSE, maxDepth)
             ELSE StringAwareDepthLoop(text, i + 1, depth, <<>>, FALSE, maxDepth)

\* checkNestingDepth of rust.ts
checkNestingDepthRust(text, maxDepth) ==
    StringAwareDepthLoop(text, 1, 0, <<>>, FALSE, maxDepth)

\* typeof value === 'string' ? value : value.version || '*'
TomlVersion(value) ==
    IF IsString(value) THEN value
    ELSE IF Truthy(VersionProperty(value)) THEN VersionProperty(value)
    ELSE Star

\* the Map of a table: deps.set(name, version) for each of its entries
TomlDeps(section) ==
    SetAll(<<>>, [i \in 1..Len(section.entries) |->
                     <<section.entries[i][1], TomlVersion(section.entries[i][2])>>])

\* the same with deps.set(name.toLowerCase(), version)
TomlDepsLowerCase(section) ==
    SetAll(<<>>, [i \in 1..Len(section.entries) |->
                     <<ToLowerCase(section.entries[i][1]),
                       TomlVersion(section.entries[i][2])>>])

parseCargoToml(file) ==
    Catch(
        IF ~checkNestingDepthRust(file.text, MAX_NESTING_DEPTH) THEN Returned(<<>>)
        ELSE IF file.parse # "object" THEN Thrown
        ELSE Returned(GroupsOf(<< <<"production", TomlDeps(file.dependencies)>>,
                                  <<"development", TomlDeps(file.devDependencies)>>,
                                  <<"build", TomlDeps(file.buildDependencies)>> >>)))

\* for (const pkg of lock.package) deps.set(pkg.name, pkg.version)
parseCargoLock(file) ==
    Catch(
        IF ~checkNestingDepthRust(file.text, MAX_NESTING_DEPTH) THEN Returned(<<>>)
        ELSE IF file.parse # "object" THEN Thrown
        ELSE Returned(GroupsOf(<< <<"production",
                                    SetAll(<<>>, [i \in 1..Len(file.package.entries) |->
                                                     <<file.package.entries[i].name,
                                                       file.package.entries[i].version>>])>> >>)))

parsePipfile(file) ==
    Catch(
        IF ~checkNestingDepthPython(file.text, MAX_NESTING_DEPTH) THEN Returned(<<>>)
        ELSE IF file.parse # "object" THEN Thrown
        ELSE Returned(GroupsOf(<< <<"production", TomlDepsLowerCase(file.packages)>>,
                                  <<"development", TomlDepsLowerCase(file.devPackages)>> >>)))

\* pkg.name.toLowerCase() of a package without name throws
PoetryLockThrows(packages) == \E i \in 1..Len(packages) : ~IsString(packages[i].name)

\* the loop of parsePoetryLock: the packages of category 'dev' go to devDeps
RECURSIVE PoetryLockLoop(_, _)
PoetryLockLoop(maps, packages) ==
    IF Len(packages) = 0 THEN maps
    ELSE LET pkg == Head(packages)
         IN  IF pkg.category = <<"d", "e", "v">>
             THEN PoetryLockLoop([maps EXCEPT !.devDeps =
                                      MapSet(@, ToLowerCase(pkg.name), pkg.version)],
                                 Tail(packages))
             ELSE PoetryLockLoop([maps EXCEPT !.prodDeps =
                                      MapSet(@, ToLowerCase(pkg.name), pkg.version)],
                                 Tail(packages))

parsePoetryLock(file) ==
    Catch(
        IF ~checkNestingDepthPython(file.text, MAX_NESTING_DEPTH) THEN Returned(<<>>)
        ELSE IF file.parse # "object" \/ PoetryLockThrows(file.package.entries) THEN Thrown
        ELSE LET maps == PoetryLockLoop([prodDeps |-> <<>>, devDeps |-> <<>>],
                                        file.package.entries)
             IN  Returned(GroupsOf(<< <<"production", maps.prodDeps>>,
                                      <<"development", maps.devDeps>> >>)))

\* dep.match(/^([a-zA-Z0-9_-]+)(?:\[.*\])?\s*([=<>!~]+)?\s*(.+)?$/) with
\* match[3] || '*': the name, then what follows the extras and the operator
Pep621Match(dep) ==
    LET nameEnd == RunEnd(dep, NameChars, 1)
        closings == {i \in IndicesOf(dep, "]") : i > nameEnd}
        extrasEnd == IF nameEnd <= Len(dep) /\ dep[nameEnd] = "[" /\ closings # {}
                     THEN Max(closings) + 1
                     ELSE nameEnd
        operator == RunEnd(dep, WhiteSpace, extrasEnd)
        start == RunEnd(dep, WhiteSpace, RunEnd(dep, {"=", "<", ">", "!", "~"}, operator))
    IN  IF nameEnd > 1
        THEN [matched |-> TRUE,
              name |-> SubSeq(dep, 1, nameEnd - 1),
              version |-> IF start <= Len(dep) THEN From(dep, start) ELSE Star]
        ELSE NoMatch

\* the loop over a list of PEP 621 requirements, left when totalDeps has
\* reached MAX_DEPENDENCIES
RECURSIVE Pep621Loop(_, _)
Pep621Loop(state, list) ==
    IF Len(list) = 0 \/ state.totalDeps >= MAX_DEPENDENCIES THEN state
    ELSE LET found == Pep621Match(Head(list))
         IN  IF found.matched
             THEN Pep621Loop([deps |-> MapSet(state.deps, ToLowerCase(found.name),
                                              found.version),
                              totalDeps |-> state.totalDeps + 1],
                             Tail(list))
             ELSE Pep621Loop(state, Tail(list))

\* the loop over the groups of project.optional-dependencies
RECURSIVE Pep621GroupsLoop(_, _)
Pep621GroupsLoop(state, groups) ==
    IF Len(groups) = 0 THEN state
    ELSE Pep621GroupsLoop(Pep621Loop(state, Head(groups)[2]), Tail(groups))

DevGroupNames == {<<"d", "e", "v">>, <<"t", "e", "s", "t">>, <<"l", "i", "n", "t">>,
                  <<"t", "y", "p", "i", "n", "g">>}

\* the groups of tool.poetry: dependencies without 'python', dev-dependencies,
\* and one group for each entry of group that has dependencies
PoetryGroups(file) ==
    LET python == <<"p", "y", "t", "h", "o", "n">>
        dependencies ==
            [file.poetryDependencies EXCEPT !.entries =
                SelectSeq(@, LAMBDA entry : ToLowerCase(entry[1]) # python)]
    IN  GroupsOf(<< <<"production", TomlDepsLowerCase(dependencies)>>,
                    <<"development", TomlDepsLowerCase(file.poetryDevDependencies)>> >>
                 \o [i \in 1..Len(file.poetryGroups.entries) |->
                        <<IF file.poetryGroups.entries[i][1] \in DevGroupNames
                          THEN "development" ELSE "production",
                          TomlDepsLowerCase(file.poetryGroups.entries[i][2])>>])

parsePyprojectToml(file) ==
    Catch(
        IF ~checkNestingDepthPython(file.text, MAX_NESTING_DEPTH) THEN Returned(<<>>)
        ELSE IF file.parse # "object" THEN Thrown
        ELSE LET production == Pep621Loop([deps |-> <<>>, totalDeps |-> 0],
                                          file.projectDependencies.entries)
                 optional == Pep621GroupsLoop([deps |-> <<>>, totalDeps |-> production.totalDeps],
                                              file.optionalDependencies.entries)
             IN  Returned(GroupsOf(<< <<"production", production.deps>>,
                                      <<"development", optional.deps>> >>)
                          \o (IF file.poetry THEN PoetryGroups(file) ELSE <<>>)))

(***************************************************************************)
(* parsePnpmLock.  A YAML file is its text, what yaml.load makes of it     *)
(* ("error" when it throws, "null" for an empty document, "object"), its   *)
(* importers and its packages.                                             *)
(***************************************************************************)
Link == <<"l", "i", "n", "k", ":">>

\* typeof info === 'string' ? info : info.version
PnpmVersion(info) == IF IsString(info) THEN info ELSE VersionProperty(info)

\* version.replace(/\(.+\)$/, ''): without the peer dependency suffix
WithoutPeers(ver) ==
    LET opens == {i \in IndicesOf(ver, "(") : i + 1 < Len(ver)}
    IN  IF ver # <<>> /\ ver[Len(ver)] = ")" /\ opens # {}
        THEN SubSeq(ver, 1, Min(opens) - 1)
        ELSE ver

\* info.version of null throws, and so does startsWith of a version that is
\* no string
PnpmThrows(section) ==
    \E i \in 1..Len(section.entries) :
        \/ section.entries[i][2] = NULL
        \/ /\ Truthy(PnpmVersion(section.entries[i][2]))
           /\ ~IsString(PnpmVersion(section.entries[i][2]))

\* the loop over the dependencies of an importer: links and entries without
\* version are skipped
RECURSIVE PnpmSectionLoop(_, _)
PnpmSectionLoop(deps, entries) ==
    IF Len(entries) = 0 THEN deps
    ELSE LET name == Head(entries)[1]
             ver == PnpmVersion(Head(entries)[2])
         IN  IF Truthy(ver) /\ ~StartsWith(ver, Link)
             THEN PnpmSectionLoop(MapSet(deps, name, WithoutPeers(ver)), Tail(entries))
             ELSE PnpmSectionLoop(deps, Tail(entries))

\* the loop over the importers
RECURSIVE PnpmImportersLoop(_, _)
PnpmImportersLoop(maps, importers) ==
    IF Len(importers) = 0 THEN maps
    ELSE PnpmImportersLoop(
             [prodDeps |-> PnpmSectionLoop(maps.prodDeps, Head(importers).dependencies.entries),
              devDeps |-> PnpmSectionLoop(maps.devDeps,
                                          Head(importers).devDependencies.entries)],
             Tail(importers))

\* the match of (@?[^@]+)@(.+) at position i
PnpmNameMatch(path, i) ==
    LET nameStart == IF i <= Len(path) /\ path[i] = "@" THEN i + 1 ELSE i
        at == IndexOfAny(path, {"@"}, nameStart)
    IN  IF at > nameStart /\ at < Len(path)
        THEN [matched |-> TRUE, name |-> SubSeq(path, i, at - 1), version |-> From(path, at + 1)]
        ELSE NoMatch

\* path.match(/\/?(@?[^@]+)@(.+)/): the leftmost match, the slash taken
\* when the rest matches with it
PnpmPathMatch(path) ==
    LET matchAt(i) == IF path[i] = "/" /\ PnpmNameMatch(path, i + 1).matched
                      THEN PnpmNameMatch(path, i + 1)
                      ELSE PnpmNameMatch(path, i)
        hits == {i \in 1..Len(path) : matchAt(i).matched}
    IN  IF hits = {} THEN NoMatch ELSE matchAt(Min(hits))

\* the loop over lock.packages: the name without a leading slash
RECURSIVE PnpmPackagesLoop(_, _)
PnpmPackagesLoop(maps, entries) ==
    IF Len(entries) = 0 THEN maps
    ELSE LET found == PnpmPathMatch(Head(entries)[1])
             info == Head(entries)[2]
             name == IF StartsWith(found.name, <<"/">>) THEN Tail(found.name) ELSE found.name
         IN  IF ~found.matched \/ StartsWith(found.version, Link)
             THEN PnpmPackagesLoop(maps, Tail(entries))
             ELSE IF info.dev
             THEN PnpmPackagesLoop([maps EXCEPT !.devDeps = MapSet(@, name, found.version)],
                                   Tail(entries))
             ELSE PnpmPackagesLoop([maps EXCEPT !.prodDeps = MapSet(@, name, found.version)],
                                   Tail(entries))

\* no depth guard: the text goes to yaml.load as it is
parsePnpmLock(file) ==
    Catch(
        IF file.parse # "object" THEN Thrown
        ELSE IF \E i \in 1..Len(file.importers.entries) :
                    \/ PnpmThrows(file.importers.entries[i].dependencies)
                    \/ PnpmThrows(file.importers.entries[i].devDependencies)
        THEN Thrown
        ELSE LET imported == PnpmImportersLoop([prodDeps |-> <<>>, devDeps |-> <<>>],
                                               file.importers.entries)
                 maps == IF Len(imported.prodDeps) = 0 /\ Len(imported.devDeps) = 0
                         THEN PnpmPackagesLoop(imported, file.packages.entries)
                         ELSE imported
             IN  Returned(GroupsOf(<< <<"production", maps.prodDeps>>,
                                      <<"development", maps.devDeps>> >>)))

(***************************************************************************)
(* parseCsproj.  An XML file is what xml2js makes of it ("error", "null"   *)
(* for no document, "object"), the PackageReference elements of its        *)
(* ItemGroups and the package elements of packages.config, each as the     *)
(* pair of its name and version attributes.                                *)
(***************************************************************************)
\* if (include && version) deps.set(include, version)
SetComplete(deps, references) ==
    SetAll(deps, SelectSeq(references, LAMBDA r : Truthy(r[1]) /\ Truthy(r[2])))

parseCsproj(file) ==
    Catch(
        IF file.parse # "object" THEN Returned(<<>>)
        ELSE Returned(GroupsOf(<< <<"production",
                                    SetComplete(SetComplete(<<>>, Flatten(file.itemGroups)),
                                                file.packages)>> >>)))

(***************************************************************************)
(* Node parsers.  A JSON file is its text, of which the depth guard reads  *)
(* the brackets and the quotes, what JSON.parse makes of it ("error" for a *)
(* SyntaxError, "null", or "object"), and the properties of the object.    *)
(***************************************************************************)
MAX_JSON_DEPTH == 20

\* the loop of checkJsonDepth from position i on
RECURSIVE JsonDepthLoop(_, _, _, _, _, _)
JsonDepthLoop(text, i, depth, inString, escape, maxDepth) ==
    IF i > Len(text) THEN TRUE
    ELSE LET char == text[i]
         IN  IF escape
             THEN JsonDepthLoop(text, i + 1, depth, inString, FALSE, maxDepth)
             ELSE IF char = "\\" /\ inString
             THEN JsonDepthLoop(text, i + 1, depth, inString, TRUE, maxDepth)
             ELSE IF char = "\""
             THEN JsonDepthLoop(text, i + 1, depth, ~inString, FALSE, maxDepth)
             ELSE IF inString
             THEN JsonDepthLoop(text, i + 1, depth, inString, FALSE, maxDepth)
             ELSE IF char \in {"{", "["}
             THEN IF depth + 1 > maxDepth THEN FALSE
                  ELSE JsonDepthLoop(text, i + 1, depth + 1, inString, FALSE, maxDepth)
             ELSE IF char \in {"}", "]"}
             THEN IF depth - 1 < 0 THEN FALSE
                  ELSE JsonDepthLoop(text, i + 1, depth - 1, inString, FALSE, maxDepth)
             ELSE JsonDepthLoop(text, i + 1, depth, inString, FALSE, maxDepth)

checkJsonDepth(text, maxDepth) == JsonDepthLoop(text, 1, 0, FALSE, FALSE, maxDepth)

\* pkg.X && Object.keys(pkg.X).length > 0: push new Map(Object.entries(pkg.X))
PackageJsonGroups(pkg) ==
    LET sections == << <<"production", pkg.dependencies>>,
                       <<"development", pkg.devDependencies>>,
                       <<"optional", pkg.optionalDependencies>>,
                       <<"peer", pkg.peerDependencies>> >>
    IN  Flatten([i \in 1..4 |->
            IF sections[i][2].defined /\ Len(sections[i][2].entries) > 0
            THEN <<[dependencies |-> sections[i][2].entries,
                    dependencyType |-> sections[i][1]]>>
            ELSE <<>>])

parsePackageJsonBody(file) ==
    IF ~checkJsonDepth(file.text, MAX_JSON_DEPTH) THEN Returned(<<>>)
    ELSE IF file.parse # "object" THEN Thrown
    ELSE Returned(PackageJsonGroups(file))

parsePackageJson(file) == Catch(parsePackageJsonBody(file))

\* the part of s after the last occurrence of sep: s.split(sep).pop()
RECURSIVE LastPart(_, _)
LastPart(s, sep) ==
    IF ~Includes(s, sep) THEN s
    ELSE LET i == CHOOSE k \in 0..(Len(s) - Len(sep)) :
                      /\ SubSeq(s, k + 1, k + Len(sep)) = sep
                      /\ \A j \in 0..(k - 1) : SubSeq(s, j + 1, j + Len(sep)) # sep
         IN  LastPart(SubSeq(s, i + Len(sep) + 1, Len(s)), sep)

NodeModulesDir == <<"n", "o", "d", "e", "_", "m", "o", "d", "u", "l", "e", "s">>

\* path.replace(/^node_modules\//, '').split('node_modules/').pop()
LockPackageName(path) ==
    LET prefix == NodeModulesDir \o <<"/">>
    IN  LastPart(SubSeq(path, Len(prefix) + 1, Len(path)), prefix)

\* if (info.dev) devDeps.set(name, info.version) else prodDeps.set(...)
SetByDev(maps, name, info) ==
    IF info.dev
    THEN [maps EXCEPT !.devDeps = MapSet(@, name, info.version)]
    ELSE [maps EXCEPT !.prodDeps = MapSet(@, name, info.version)]

\* the loop over lock.packages (lockfileVersion 3)
RECURSIVE PackageLockV3Loop(_, _)
PackageLockV3Loop(maps, entries) ==
    IF Len(entries) = 0 THEN maps
    ELSE LET path == Head(entries)[1]
             info == Head(entries)[2]
         IN  IF \/ path = <<>>
                \/ path = NodeModulesDir
                \/ ~StartsWith(path, NodeModulesDir \o <<"/">>)
                \/ Falsy(LockPackageName(path))
                \/ Falsy(info.version)
             THEN PackageLockV3Loop(maps, Tail(entries))
             ELSE PackageLockV3Loop(SetByDev(maps, LockPackageName(path), info), Tail(entries))

\* the loop over lock.dependencies (lockfileVersion 2)
RECURSIVE PackageLockV2Loop(_, _)
PackageLockV2Loop(maps, entries) ==
    IF Len(entries) = 0 THEN maps
    ELSE LET name == Head(entries)[1]
             info == Head(entries)[2]
         IN  IF Falsy(info.version)
             THEN PackageLockV2Loop(maps, Tail(entries))
             ELSE PackageLockV2Loop(SetByDev(maps, name, info), Tail(entries))

\* no depth guard: the text goes to JSON.parse as it is
parsePackageLockJsonBody(file) ==
    IF file.parse # "object" THEN Thrown
    ELSE LET empty == [prodDeps |-> <<>>, devDeps |-> <<>>]
             maps == IF file.packages.defined
                     THEN PackageLockV3Loop(empty, file.packages.entries)
                     ELSE IF file.dependencies.defined
                     THEN PackageLockV2Loop(empty, file.dependencies.entries)
                     ELSE empty
         IN  Returned(GroupsOf(<< <<"production", maps.prodDeps>>,
                                  <<"development", maps.devDeps>> >>))

parsePackageLockJson(file) == Catch(parsePackageLockJsonBody(file))

(***************************************************************************)
(* analyzeFile.  A revision is what getFileAtRef returns: found is FALSE   *)
(* for null, and the content is the file handed to the parser.             *)
(***************************************************************************)
\* parser.parser(content)
RunParser(name, file) ==
    CASE name = "parsePackageJson" -> parsePackageJson(file)
      [] name = "parsePackageLockJson" -> parsePackageLockJson(file)
      [] name = "parsePomXml" -> parsePomXml(file)
      [] name = "parseGoMod" -> parseGoMod(file)
      [] name = "parseYarnLock" -> parseYarnLock(file)
      [] name = "parsePnpmLock" -> parsePnpmLock(file)
      [] name = "parseRequirementsTxt" -> parseRequirementsTxt(file)
      [] name = "parsePyprojectToml" -> parsePyprojectToml(file)
      [] name = "parsePipfile" -> parsePipfile(file)
      [] name = "parsePoetryLock" -> parsePoetryLock(file)
      [] name = "parseGoSum" -> parseGoSum(file)
      [] name = "parseGemfile" -> parseGemfile(file)
      [] name = "parseGemfileLock" -> parseGemfileLock(file)
      [] name = "parseBuildGradle" -> parseBuildGradle(file)
      [] name = "parseCargoToml" -> parseCargoToml(file)
      [] name = "parseCargoLock" -> parseCargoLock(file)
      [] name = "parseCsproj" -> parseCsproj(file)

\* !content: null or the empty string
NoContent(revision) == ~revision.found \/ revision.content.text = <<>>

\* the flattening loop that keeps the groups of every type
RECURSIVE ByType_KeepAll(_, _, _)
ByType_KeepAll(byType, groups, includeDev) ==
    IF Len(groups) = 0 THEN byType
    ELSE LET group == Head(groups)
             existing == IF MapHas(byType, group.dependencyType)
                         THEN MapGet(byType, group.dependencyType)
                         ELSE <<>>
         IN  ByType_KeepAll(MapSet(byType, group.dependencyType,
                                   SetAll(existing, group.dependencies)),
                            Tail(groups), includeDev)

\* the map from dependency type to the merged map of its groups
RECURSIVE ByType(_, _, _)
ByType(byType, groups, includeDev) ==
    IF Len(groups) = 0 THEN byType
    ELSE LET group == Head(groups)
             existing == IF MapHas(byType, group.dependencyType)
                         THEN MapGet(byType, group.dependencyType)
                         ELSE <<>>
         IN  IF ~includeDev /\ group.dependencyType # "production"
             THEN ByType(byType, Tail(groups), includeDev)
             ELSE ByType(MapSet(byType, group.dependencyType,
                                SetAll(existing, group.dependencies)),
                         Tail(groups), includeDev)

MapKeySeq(m) == [i \in 1..Len(m) |-> m[i][1]]

\* the types of the old side only
AllTypes_OldOnly(oldByType, newByType) == MapKeySeq(oldByType)

\* new Set([...oldByType.keys(), ...newByType.keys()])
AllTypes(oldByType, newByType) ==
    MapKeySeq(oldByType)
        \o SelectSeq(MapKeySeq(newByType), LAMBDA type : ~MapHas(oldByType, type))

\* oldByType.get(depType) || new Map()
TypeDeps(byType, depType) == IF MapHas(byType, depType) THEN MapGet(byType, depType) ELSE <<>>

\* compareVersions reaches cleanVersion with a value that is no string:
\* version.replace is not a function
compareVersionsThrows(old, new) ==
    \E i \in 1..Len(old) :
        LET newV == MapGet(new, old[i][1])
        IN  ~Falsy(newV) /\ (~IsString(old[i][2]) \/ ~IsString(newV))

Analyzed(chs) == [threw |-> FALSE, changes |-> chs]
AnalyzeThrown == [threw |-> TRUE, changes |-> <<>>]

\* oldContent ? parser.parser(oldContent) : []
ParsedRevision(name, revision) ==
    IF NoContent(revision) THEN <<>> ELSE RunParser(name, revision.content).groups

\* the loop over allTypes: the changes of every type in turn, or the exception
\* that leaves compareVersions
CompareTypes(oldByType, newByType, parser, path) ==
    LET allTypes == AllTypes(oldByType, newByType)
    IN  IF \E i \in 1..Len(allTypes) :
               compareVersionsThrows(TypeDeps(oldByType, allTypes[i]),
                                     TypeDeps(newByType, allTypes[i]))
        THEN AnalyzeThrown
        ELSE Analyzed(Flatten([i \in 1..Len(allTypes) |->
                 compareVersions(TypeDeps(oldByType, allTypes[i]),
                                 TypeDeps(newByType, allTypes[i]),
                                 parser.ecosystem, path, allTypes[i])]))

\* each revision is parsed and flattened once, then the two sides are compared
analyzeFile(path, oldRevision, newRevision, includeDev) ==
    LET parser == getParserForFile(path)
    IN  IF ~parser.found THEN Analyzed(<<>>)
        ELSE IF NoContent(oldRevision) /\ NoContent(newRevision) THEN Analyzed(<<>>)
        ELSE CHOOSE outcome \in
                 {CompareTypes(oldByType, newByType, registered, path) :
                      oldByType \in {ByType(<<>>, ParsedRevision(parser.parser, oldRevision),
                                            includeDev)},
                      newByType \in {ByType(<<>>, ParsedRevision(parser.parser, newRevision),
                                            includeDev)},
                      registered \in {parser}} : TRUE

(***************************************************************************)
(* run (index.ts)                                                          *)
(*                                                                         *)
(* The repository is what git answers: whether git diff fails and, for     *)
(* each changed file, its path and its content at the base and at the head *)
(* revision.  The raw inputs are the action's inputs after core.getInput:  *)
(* the requested ecosystems already split, trimmed and lowercased.  The    *)
(* SHAs of a pull_request payload are 40 hexadecimal digits, so the ref    *)
(* test of getFileAtRef passes.  core.setOutput is recorded with the value *)
(* it is handed.                                                           *)
(***************************************************************************)
VALID_ECOSYSTEMS == <<<<"n", "o", "d", "e">>, <<"p", "y", "t", "h", "o", "n">>, <<"g", "o">>,
                      <<"r", "u", "b", "y">>, <<"j", "a", "v", "a">>, <<"r", "u", "s", "t">>,
                      <<"d", "o", "t", "n", "e", "t">>>>

Nul == "NUL"

\* no '..', no leading '/', no NUL character
isValidFilePath(path) ==
    ~(Includes(path, <<".", ".">>) \/ StartsWith(path, <<"/">>) \/ Includes(path, <<Nul>>))

\* the content git show gives, or null for a path that is refused
getFileAtRef(path, revision) ==
    IF ~isValidFilePath(path) THEN [found |-> FALSE, content |-> revision.content]
    ELSE revision

isDependencyFile(path) ==
    \E i \in 1..Len(DEPENDENCY_FILE_PATTERNS) :
        PatternMatches(DEPENDENCY_FILE_PATTERNS[i], FileName(path))

validateEcosystem(ecosystem) == SeqIncludes(VALID_ECOSYSTEMS, ecosystem)

AllEcosystems == [all |-> TRUE, list |-> <<>>]
Ecosystems(list) == [all |-> FALSE, list |-> list]
All == <<"a", "l", "l">>

\* the ActionInputs: the valid ecosystems among the requested ones, 'all'
\* when 'all' is asked for or none is valid
getInputs(raw) ==
    LET validEcosystems == SelectSeq(raw.ecosystems, validateEcosystem)
    IN  [token |-> raw.token,
         ecosystems |-> IF raw.ecosystems = <<All>> \/ Len(validEcosystems) = 0
                        THEN AllEcosystems
                        ELSE Ecosystems(validEcosystems),
         commentOnPr |-> raw.commentOnPr,
         includeDevDependencies |-> raw.includeDevDependencies]

filterEcosystems(ecosystems) ==
    IF ecosystems.all THEN VALID_ECOSYSTEMS ELSE ecosystems.list

\* JSON.stringify of a string, of null or of a number
JsonValue(value) ==
    IF value = NULL THEN <<"n", "u", "l", "l">>
    ELSE IF IsString(value) THEN <<"\"">> \o value \o <<"\"">>
    ELSE Tail(value)

\* JSON.stringify of an object: its properties in creation order, those whose
\* value is undefined left out
JsonObject(properties) ==
    LET kept == SelectSeq(properties, LAMBDA property : property[2] # UNDEFINED)
    IN  <<"{">>
        \o Flatten([i \in 1..Len(kept) |->
               (IF i = 1 THEN <<>> ELSE <<",">>)
               \o <<"\"", kept[i][1], "\"", ":">> \o JsonValue(kept[i][2])])
        \o <<"}">>

\* JSON.stringify(uniqueChanges): the texts of the array's elements
JsonStringify(chs) ==
    [i \in 1..Len(chs) |->
        JsonObject(<<<<"name", chs[i].name>>,
                     <<"ecosystem", chs[i].ecosystem>>,
                     <<"file", chs[i].file>>,
                     <<"oldVersion", chs[i].oldVersion>>,
                     <<"newVersion", chs[i].newVersion>>,
                     <<"changeType", <<chs[i].changeType>>>>,
                     <<"dependencyType", <<chs[i].dependencyType>>>>>>)]

setOutput(outs, name, value) == MapSet(outs, name, value)

\* the three outputs with the flag always true
SetOutputs_AlwaysChanged(chs) ==
    setOutput(setOutput(setOutput(<<>>,
        "has-changes", TRUE),
        "changes-json", JsonStringify(chs)),
        "changes-count", Len(chs))

\* the three core.setOutput calls of a path that does not fail
SetOutputs(chs) ==
    setOutput(setOutput(setOutput(<<>>,
        "has-changes", Len(chs) > 0),
        "changes-json", JsonStringify(chs)),
        "changes-count", Len(chs))

NoComment == [posted |-> FALSE, changes |-> <<>>]
\* createOrUpdateComment, when the input asks for it and there is a token
Comment(ins, chs) ==
    IF ins.commentOnPr /\ ins.token # <<>> THEN [posted |-> TRUE, changes |-> chs]
    ELSE NoComment

\* the loop over the dependency files: the changes of each file, those of the
\* active ecosystems kept; an exception of analyzeFile ends the loop
RECURSIVE AnalyzeLoop(_, _, _)
AnalyzeLoop(all, files, ins) ==
    IF Len(files) = 0 THEN Analyzed(all)
    ELSE LET file == Head(files)
             activeEcosystems == filterEcosystems(ins.ecosystems)
             filteredChanges(chs) ==
                 SelectSeq(chs, LAMBDA c : SeqIncludes(activeEcosystems, c.ecosystem))
         IN  CHOOSE outcome \in
                 {IF analysis.threw THEN AnalyzeThrown
                  ELSE AnalyzeLoop(all \o filteredChanges(analysis.changes), Tail(files), ins) :
                      analysis \in {analyzeFile(file.path,
                                                getFileAtRef(file.path, file.old),
                                                getFileAtRef(file.path, file.new),
                                                ins.includeDevDependencies)}} : TRUE

\* run has returned: the outputs set, the comment posted
RunReturned(all, unique, comment) ==
    [failed |-> FALSE, outputs |-> SetOutputs(unique), comment |-> comment,
     allChanges |-> all, uniqueChanges |-> unique]
\* the catch of run: core.setFailed, no output set
RunFailed ==
    [failed |-> TRUE, outputs |-> <<>>, comment |-> NoComment,
     allChanges |-> <<>>, uniqueChanges |-> <<>>]

\* the analysis of the dependency files, the reconciliation and the outputs
RunAnalysis(dependencyFiles, ins) ==
    CHOOSE outcome \in
        {IF analysis.threw THEN RunFailed
         ELSE CHOOSE returned \in
                  {RunReturned(analysis.changes, unique, Comment(ins, unique)) :
                       unique \in {deduplicateChanges(analysis.changes)}} : TRUE :
             analysis \in {AnalyzeLoop(<<>>, dependencyFiles, ins)}} : TRUE

run(pr, repo, raw) ==
    IF ~pr THEN RunReturned(<<>>, <<>>, NoComment)
    ELSE IF repo.diffFails THEN RunFailed
    ELSE CHOOSE outcome \in
             {IF Len(dependencyFiles) = 0 THEN RunReturned(<<>>, <<>>, Comment(ins, <<>>))
              ELSE RunAnalysis(dependencyFiles, ins) :
                  ins \in {getInputs(raw)},
                  dependencyFiles \in {SelectSeq(repo.changedFiles,
                                                 LAMBDA f : isDependencyFile(f.path))}} : TRUE

(***************************************************************************)
(* State of the parsers, of analyzeFile and of run                         *)
(***************************************************************************)
VARIABLES parserName, content, results, raised,
          filePath, oldContent, newContent, includeDevDependencies, fileChanges,
          pullRequest, repository, inputs, outputs, comment, failed

parseVars == <<parserName, content, results, raised>>
analyzeVars == <<filePath, oldContent, newContent, includeDevDependencies, fileChanges>>
runVars == <<pullRequest, repository, inputs, outputs, comment, failed>>

(***************************************************************************)
(* State of a depth guard, of getParserForFile and of the comments of the  *)
(* pull request                                                            *)
(***************************************************************************)
VARIABLES guard, maxDepth, accepted,
          dependencyFile,
          comments, posted

guardVars == <<guard, maxDepth, accepted>>
lookupVars == <<dependencyFile>>
commentVars == <<comments, posted>>

vars == <<pc, version, cleaned, recleaned, oldVersion, newVersion, changeType,
          oldDeps, newDeps, changes, allChanges, uniqueChanges,
          parseVars, analyzeVars, runVars, guardVars, lookupVars, commentVars>>

(***************************************************************************)
(* Bounds and input sets                                                   *)
(***************************************************************************)
\* the longest string handed to cleanVersion on its own
MaxVersionLen == 4
\* the largest value of a version component in the classifier's inputs
MaxComponent == 1

StringsOver(A, n) == UNION {[1..k -> A] : k \in 0..n}

\* the characters of the strings handed to cleanVersion on its own
CleanChars == {"^", ">", " ", "1", "."}

Numeral(n) == <<DigitChars[n + 1]>>
Dot == <<".">>

\* versions handed to the classifier: an optional prefix, a core, an optional tail
VersionPrefixes == {<<>>, <<"^">>, <<" ", "^">>}
VersionCores ==
    {Numeral(a) : a \in 0..MaxComponent}
    \cup {Numeral(a) \o Dot \o Numeral(b) : a, b \in 0..MaxComponent}
    \cup {Numeral(a) \o Dot \o Numeral(b) \o Dot \o Numeral(c) : a, b, c \in 0..MaxComponent}
    \cup {<<"0", "1", ".", "0", ".", "0">>,
          <<"v", "1", ".", "0", ".", "0">>,
          <<"1", ".", "0", ".", "0", ".", "1">>,
          <<"1", ".", "0", ".", "0", "-">>,
          <<"a">>,
          <<>>}
VersionTails == {<<>>, <<"-", "a">>, <<"+", "a">>}
Versions == {p \o c \o t : p \in VersionPrefixes, c \in VersionCores, t \in VersionTails}

Unset == "unset"

(***************************************************************************)
(* SpecClean: cleanVersion applied once, then to its own result            *)
(***************************************************************************)
IdleClean == version = <<>> /\ cleaned = <<>> /\ recleaned = <<>>
IdleClassify == oldVersion = <<>> /\ newVersion = <<>> /\ changeType = Unset
IdleCompare == oldDeps = <<>> /\ newDeps = <<>> /\ changes = <<>>
IdleDedup == allChanges = <<>> /\ uniqueChanges = <<>>
IdleParse == parserName = Unset /\ content = <<>> /\ results = <<>> /\ raised = FALSE
IdleAnalyze ==
    /\ filePath = <<>> /\ oldContent = <<>> /\ newContent = <<>>
    /\ includeDevDependencies = FALSE /\ fileChanges = <<>>
IdleRun ==
    /\ pullRequest = FALSE /\ repository = <<>> /\ inputs = <<>>
    /\ outputs = <<>> /\ comment = <<>> /\ failed = FALSE
IdleGuard == guard = Unset /\ maxDepth = 0 /\ accepted = FALSE
IdleLookup == dependencyFile = Unset
IdleComment == comments = <<>> /\ posted = 0
IdleOthers == IdleGuard /\ IdleLookup /\ IdleComment

InitClean ==
    /\ IdleOthers
    /\ pc = "clean"
    /\ version \in StringsOver(CleanChars, MaxVersionLen)
    /\ cleaned = NULL
    /\ recleaned = NULL
    /\ IdleClassify /\ IdleCompare /\ IdleDedup
    /\ IdleParse /\ IdleAnalyze /\ IdleRun

Clean ==
    /\ pc = "clean"
    /\ cleaned' = cleanVersion(version)
    /\ pc' = "reclean"
    /\ UNCHANGED <<version, recleaned, oldVersion, newVersion, changeType,
                   oldDeps, newDeps, changes, allChanges, uniqueChanges,
                   parseVars, analyzeVars, runVars,
                   guardVars, lookupVars, commentVars>>

CleanAgain ==
    /\ pc = "reclean"
    /\ recleaned' = cleanVersion(cleaned)
    /\ pc' = "cleaned"
    /\ UNCHANGED <<version, cleaned, oldVersion, newVersion, changeType,
                   oldDeps, newDeps, changes, allChanges, uniqueChanges,
                   parseVars, analyzeVars, runVars,
                   guardVars, lookupVars, commentVars>>

NextClean == Clean \/ CleanAgain

SpecClean == InitClean /\ [][NextClean]_vars

(***************************************************************************)
(* SpecClassify: determineChangeType on a pair of version strings          *)
(***************************************************************************)
InitClassify ==
    /\ IdleOthers
    /\ pc = "classify"
    /\ oldVersion \in Versions
    /\ newVersion \in Versions
    /\ changeType = Unset
    /\ IdleClean /\ IdleCompare /\ IdleDedup
    /\ IdleParse /\ IdleAnalyze /\ IdleRun

Classify ==
    /\ pc = "classify"
    /\ changeType' = determineChangeType(oldVersion, newVersion)
    /\ pc' = "classified"
    /\ UNCHANGED <<version, cleaned, recleaned, oldVersion, newVersion,
                   oldDeps, newDeps, changes, allChanges, uniqueChanges,
                   parseVars, analyzeVars, runVars,
                   guardVars, lookupVars, commentVars>>

NextClassify == Classify

SpecClassify == InitClassify /\ [][NextClassify]_vars

(***************************************************************************)
(* Spec: compareVersions on a pair of dependency maps                      *)
(***************************************************************************)
\* the largest number of entries of a dependency map
MaxDeps == 2

DepNames == {<<"p", DigitChars[i + 1]>> : i \in 1..MaxDeps}
DepVersions == {<<>>,
                <<"^">>,
                <<"1", ".", "0", ".", "0">>,
                <<"^", "1", ".", "0", ".", "0">>,
                <<"2", ".", "0", ".", "0">>}

\* the maps with at most MaxDeps entries: distinct names, in any insertion order
DepMaps ==
    {m \in UNION {[1..k -> DepNames \X DepVersions] : k \in 0..MaxDeps} :
        \A i, j \in 1..Len(m) : m[i][1] = m[j][1] => i = j}

NodeEcosystem == <<"n", "o", "d", "e">>
PackageJson == <<"p", "a", "c", "k", "a", "g", "e", ".", "j", "s", "o", "n">>

Init ==
    /\ IdleOthers
    /\ pc = "compare"
    /\ oldDeps \in DepMaps
    /\ newDeps \in DepMaps
    /\ changes = <<>>
    /\ IdleClean /\ IdleClassify /\ IdleDedup
    /\ IdleParse /\ IdleAnalyze /\ IdleRun

Compare ==
    /\ pc = "compare"
    /\ changes' = compareVersions(oldDeps, newDeps, NodeEcosystem, PackageJson, "production")
    /\ pc' = "compared"
    /\ UNCHANGED <<version, cleaned, recleaned, oldVersion, newVersion, changeType,
                   oldDeps, newDeps, allChanges, uniqueChanges,
                   parseVars, analyzeVars, runVars,
                   guardVars, lookupVars, commentVars>>

Next == Compare

Spec == Init /\ [][Next]_vars

(***************************************************************************)
(* Claims about compareVersions (checked under Spec)                       *)
(***************************************************************************)
ChangesFor(name) == {i \in 1..Len(changes) : changes[i].name = name}

\* C1: every change compareVersions emits has oldVersion null iff its
\* changeType is 'added', newVersion null iff its changeType is 'removed',
\* both versions non-null for every other changeType, and never both null.
C1_NullIffAddedOrRemoved ==
    pc = "compared" =>
        \A i \in 1..Len(changes) :
            LET c == changes[i]
            IN  /\ (c.oldVersion = NULL) <=> (c.changeType = "added")
                /\ (c.newVersion = NULL) <=> (c.changeType = "removed")
                /\ c.changeType \notin {"added", "removed"}
                       => c.oldVersion # NULL /\ c.newVersion # NULL
                /\ ~(c.oldVersion = NULL /\ c.newVersion = NULL)
                /\ c.oldVersion # UNDEFINED /\ c.newVersion # UNDEFINED

\* a comparison that emitted a changed entry and an added entry, and one that
\* emitted a removed entry, are reached
C1_Witness ==
    /\ pc = "compared"
    /\ \E i, j \in 1..Len(changes) :
           /\ changes[i].changeType = "major"
           /\ changes[j].changeType = "added"

C1_WitnessRemoved ==
    /\ pc = "compared"
    /\ \E i \in 1..Len(changes) : changes[i].changeType = "removed"

\* C4: compareVersions returns no changes when oldMap and newMap are the
\* same map, whatever the version strings are.
C4_IdenticalMapsNoChanges ==
    (pc = "compared" /\ oldDeps = newDeps) => changes = <<>>

\* C5: for a name that is a key of both maps, a change is emitted iff
\* cleanVersion(old) differs from cleanVersion(new).
C5_ChangeIffCleanedDiffer ==
    pc = "compared" =>
        \A name \in MapKeys(oldDeps) \cap MapKeys(newDeps) :
            (ChangesFor(name) # {})
                <=> (cleanVersion(MapGet(oldDeps, name)) # cleanVersion(MapGet(newDeps, name)))

\* C6: a 'removed' change is emitted for a name exactly when the name is a
\* key of oldMap and not of newMap, an 'added' change exactly when it is a
\* key of newMap and not of oldMap; such a name yields exactly one change,
\* with the version of the side where it is present.
C6_RemovedAddedIffKeyAbsent ==
    pc = "compared" =>
        \A name \in DepNames :
            LET removed == {i \in ChangesFor(name) : changes[i].changeType = "removed"}
                added == {i \in ChangesFor(name) : changes[i].changeType = "added"}
                onlyOld == MapHas(oldDeps, name) /\ ~MapHas(newDeps, name)
                onlyNew == MapHas(newDeps, name) /\ ~MapHas(oldDeps, name)
            IN  /\ (removed # {}) <=> onlyOld
                /\ (added # {}) <=> onlyNew
                /\ onlyOld => /\ Cardinality(ChangesFor(name)) = 1
                              /\ \A i \in removed :
                                     changes[i].oldVersion = MapGet(oldDeps, name)
                /\ onlyNew => /\ Cardinality(ChangesFor(name)) = 1
                              /\ \A i \in added :
                                     changes[i].newVersion = MapGet(newDeps, name)

(***************************************************************************)
(* Claims about determineChangeType (checked under SpecClassify)           *)
(***************************************************************************)
CoercedOld == semverCoerce(cleanVersion(oldVersion))
CoercedNew == semverCoerce(cleanVersion(newVersion))
\* the cleaned new version is a semantic version with prerelease identifiers
NewHasPrereleaseTag == semverPrerelease(cleanVersion(newVersion)) # <<>>
SameTriple(a, b) == a.major = b.major /\ a.minor = b.minor /\ a.patch = b.patch

\* runs of range operators put in front of a version
OperatorRuns == {<<"^">>, <<"~">>, <<">", "=">>}

\* C7: when both versions coerce to a triple and the new version has no
\* prerelease tag, the result is 'major' if the major components differ,
\* else 'minor' if the minor components differ, else 'patch' if the patch
\* components differ; putting range operators in front of either version
\* leaves the result unchanged.
C7_StructuralDiff ==
    (pc = "classified" /\ CoercedOld.valid /\ CoercedNew.valid /\ ~NewHasPrereleaseTag) =>
        /\ CoercedOld.major # CoercedNew.major => changeType = "major"
        /\ (CoercedOld.major = CoercedNew.major /\ CoercedOld.minor # CoercedNew.minor)
               => changeType = "minor"
        /\ (/\ CoercedOld.major = CoercedNew.major
            /\ CoercedOld.minor = CoercedNew.minor
            /\ CoercedOld.patch # CoercedNew.patch) => changeType = "patch"
        /\ \A p \in OperatorRuns :
               /\ determineChangeType(p \o oldVersion, newVersion) = changeType
               /\ determineChangeType(oldVersion, p \o newVersion) = changeType
               /\ determineChangeType(p \o oldVersion, p \o newVersion) = changeType

\* ^1.0.0 against 1.1.0 has been classified
C7_Witness ==
    /\ pc = "classified"
    /\ oldVersion = <<"^", "1", ".", "0", ".", "0">>
    /\ newVersion = <<"1", ".", "1", ".", "0">>
    /\ changeType = "minor"

\* C8: when both versions coerce and the new version carries prerelease
\* identifiers, the result is 'prerelease' whatever the numeric difference.
C8_PrereleaseTakesPrecedence ==
    (pc = "classified" /\ CoercedOld.valid /\ CoercedNew.valid /\ NewHasPrereleaseTag)
        => changeType = "prerelease"

\* a pair whose major components differ and whose new version has a
\* prerelease tag has been classified
C8_Witness ==
    /\ pc = "classified"
    /\ CoercedOld.valid /\ CoercedNew.valid
    /\ NewHasPrereleaseTag
    /\ CoercedOld.major # CoercedNew.major
    /\ changeType = "prerelease"

\* C9: the result is 'other' when the old or the new cleaned version does
\* not coerce, and when both coerce to the same triple and the new version
\* has no prerelease tag; the result is always one of major, minor, patch,
\* prerelease and other (a value is returned, never 'added' or 'removed').
C9_OtherWhenNotComparable ==
    pc = "classified" =>
        /\ changeType \in {"major", "minor", "patch", "prerelease", "other"}
        /\ (~CoercedOld.valid \/ ~CoercedNew.valid) => changeType = "other"
        /\ (/\ CoercedOld.valid /\ CoercedNew.valid
            /\ SameTriple(CoercedOld, CoercedNew)
            /\ ~NewHasPrereleaseTag) => changeType = "other"

\* an old version that does not coerce has been classified against a new
\* version with a prerelease tag
C9_Witness ==
    /\ pc = "classified"
    /\ ~CoercedOld.valid
    /\ NewHasPrereleaseTag
    /\ changeType = "other"

\* the cleaned old version is a semantic version with prerelease identifiers
OldHasPrereleaseTag == semverPrerelease(cleanVersion(oldVersion)) # <<>>

\* C30: for two versions of which neither carries a prerelease tag,
\* determineChangeType gives the same result in both directions: a downgrade
\* is classified as the upgrade between the same versions is.
C30_DirectionDoesNotMatter ==
    (pc = "classified" /\ ~OldHasPrereleaseTag /\ ~NewHasPrereleaseTag)
        => changeType = determineChangeType(newVersion, oldVersion)

\* a downgrade of the minor component, behind range operators, has been
\* classified
C30_Witness ==
    /\ pc = "classified"
    /\ ~OldHasPrereleaseTag /\ ~NewHasPrereleaseTag
    /\ CoercedOld.valid /\ CoercedNew.valid
    /\ CoercedOld.major = CoercedNew.major
    /\ CoercedOld.minor > CoercedNew.minor
    /\ oldVersion # cleanVersion(oldVersion)
    /\ changeType = "minor"

(***************************************************************************)
(* Claim about cleanVersion (checked under SpecClean)                      *)
(***************************************************************************)
\* C10: cleanVersion is idempotent: cleaning a cleaned version changes nothing.
C10_CleanVersionIdempotent ==
    pc = "cleaned" => recleaned = cleaned

(***************************************************************************)
(* SpecDedup: deduplicateChanges on the changes of several files.  The     *)
(* ecosystem of a change is the one the registry gives its file, as in     *)
(* analyzeFile.                                                            *)
(***************************************************************************)
\* the largest number of changes handed to deduplicateChanges
MaxChanges == 3

GoMod == <<"g", "o", ".", "m", "o", "d">>
GoSum == <<"g", "o", ".", "s", "u", "m">>
PackageLockJson == <<"p", "a", "c", "k", "a", "g", "e", "-", "l", "o", "c", "k", ".", "j", "s", "o", "n">>
PackageJsonInLockDir == <<"l", "o", "c", "k", "/", "p", "a", "c", "k", "a", "g", "e", ".", "j", "s", "o", "n">>

PackageJsonInAppDir == <<"a", "p", "p", "/", "p", "a", "c", "k", "a", "g", "e", ".", "j", "s", "o", "n">>

ChangedFiles == {PackageJson, PackageJsonInAppDir, PackageLockJson, PackageJsonInLockDir,
                 GoMod, GoSum}
PackageNames == {<<"a">>, <<"b">>}

ChangeOf(file, name) ==
    [name |-> name,
     ecosystem |-> getParserForFile(file).ecosystem,
     file |-> file,
     oldVersion |-> <<"1", ".", "0", ".", "0">>,
     newVersion |-> <<"2", ".", "0", ".", "0">>,
     changeType |-> "major",
     dependencyType |-> "production"]

DetectedChanges == {ChangeOf(f, n) : f \in ChangedFiles, n \in PackageNames}

InitDedup ==
    /\ IdleOthers
    /\ pc = "deduplicate"
    /\ allChanges \in UNION {[1..k -> DetectedChanges] : k \in 0..MaxChanges}
    /\ uniqueChanges = <<>>
    /\ IdleClean /\ IdleClassify /\ IdleCompare
    /\ IdleParse /\ IdleAnalyze /\ IdleRun

Deduplicate ==
    /\ pc = "deduplicate"
    /\ uniqueChanges' = deduplicateChanges(allChanges)
    /\ pc' = "deduplicated"
    /\ UNCHANGED <<version, cleaned, recleaned, oldVersion, newVersion, changeType,
                   oldDeps, newDeps, changes, allChanges,
                   parseVars, analyzeVars, runVars,
                   guardVars, lookupVars, commentVars>>

NextDedup == Deduplicate

SpecDedup == InitDedup /\ [][NextDedup]_vars

(***************************************************************************)
(* Claims about deduplicateChanges (checked under SpecDedup)               *)
(***************************************************************************)
Pair(change) == <<change.ecosystem, change.name>>
PairsOf(chs) == {Pair(chs[i]) : i \in 1..Len(chs)}

\* C2: the output holds exactly one change for each (ecosystem, name) pair
\* of the input: no pair twice, no pair lost, and nothing that was not given.
C2_OneChangePerPair ==
    pc = "deduplicated" =>
        /\ \A i, j \in 1..Len(uniqueChanges) :
               Pair(uniqueChanges[i]) = Pair(uniqueChanges[j]) => i = j
        /\ PairsOf(uniqueChanges) = PairsOf(allChanges)
        /\ \A i \in 1..Len(uniqueChanges) : SeqIncludes(allChanges, uniqueChanges[i])

\* three changes, two of them for the same pair and two with the same name in
\* different ecosystems, have been reconciled into two
C2_Witness ==
    /\ pc = "deduplicated"
    /\ Len(allChanges) = 3
    /\ Len(uniqueChanges) = 2
    /\ \E i, j \in 1..Len(uniqueChanges) :
           /\ uniqueChanges[i].name = uniqueChanges[j].name
           /\ uniqueChanges[i].ecosystem # uniqueChanges[j].ecosystem

\* the lock and checksum files of the registry
LockFileNames == {<<"p", "a", "c", "k", "a", "g", "e", "-", "l", "o", "c", "k", ".", "j", "s", "o", "n">>,
                  <<"y", "a", "r", "n", ".", "l", "o", "c", "k">>,
                  <<"p", "n", "p", "m", "-", "l", "o", "c", "k", ".", "y", "a", "m", "l">>,
                  <<"p", "o", "e", "t", "r", "y", ".", "l", "o", "c", "k">>,
                  <<"P", "i", "p", "f", "i", "l", "e", ".", "l", "o", "c", "k">>,
                  <<"g", "o", ".", "s", "u", "m">>,
                  <<"G", "e", "m", "f", "i", "l", "e", ".", "l", "o", "c", "k">>,
                  <<"C", "a", "r", "g", "o", ".", "l", "o", "c", "k">>}
FromLockFile(change) == FileName(change.file) \in LockFileNames
FromManifest(change) ==
    getParserForFile(change.file).found /\ ~FromLockFile(change)

\* C3: when a manifest-derived change and a lock-derived change of the same
\* ecosystem have the same name, exactly one change for that pair survives
\* and it is a manifest-derived one, whichever came first.
C3_ManifestPreferred ==
    pc = "deduplicated" =>
        \A i, j \in 1..Len(allChanges) :
            (/\ FromManifest(allChanges[i])
             /\ FromLockFile(allChanges[j])
             /\ Pair(allChanges[i]) = Pair(allChanges[j]))
            => LET survivors == {k \in 1..Len(uniqueChanges) :
                                    Pair(uniqueChanges[k]) = Pair(allChanges[i])}
               IN  /\ Cardinality(survivors) = 1
                   /\ \A k \in survivors : FromManifest(uniqueChanges[k])

\* the positions of the input holding the changes of one key
PositionsOf(chs, pair) == {i \in 1..Len(chs) : Pair(chs[i]) = pair}
ContainsLock(file) == Includes(file, <<"l", "o", "c", "k">>)

MaxGoModLines == 4

V10 == <<"v", "1", ".", "0">>
V20rc == <<"v", "2", ".", "0", "-", "r", "c">>

\* a line of a go.mod file: what it is, and its text
GoModLine(kind, module, ver, indirect, text) ==
    [kind |-> kind, module |-> module, version |-> ver, indirect |-> indirect,
     text |-> text]

IndirectSuffix(indirect) == IF indirect THEN <<" ">> \o IndirectComment ELSE <<>>

\* an entry of a block:  <tab>module version [// indirect]
EntryLine(module, ver, indirect) ==
    GoModLine("entry", module, ver, indirect,
              <<"\t">> \o module \o <<" ">> \o ver \o IndirectSuffix(indirect))

\* the single-line form:  require module version [// indirect]
RequireLine(module, ver, indirect) ==
    GoModLine("require", module, ver, indirect,
              <<"r", "e", "q", "u", "i", "r", "e", " ">> \o module \o <<" ">> \o ver
                  \o IndirectSuffix(indirect))

GoModEntries == {<<<<"a">>, V10, FALSE>>, <<<<"a">>, V20rc, TRUE>>,
                 <<<<"b">>, V10, TRUE>>, <<<<"b">>, V20rc, FALSE>>}

GoModLines ==
    {EntryLine(e[1], e[2], e[3]) : e \in GoModEntries}
    \cup {RequireLine(e[1], e[2], e[3]) : e \in GoModEntries}
    \cup {GoModLine("require (", <<>>, <<>>, FALSE,
                    <<"r", "e", "q", "u", "i", "r", "e", " ", "(">>),
          GoModLine("exclude (", <<>>, <<>>, FALSE,
                    <<"e", "x", "c", "l", "u", "d", "e", " ", "(">>),
          GoModLine(")", <<>>, <<>>, FALSE, <<")">>),
          GoModLine("module", <<>>, <<>>, FALSE, <<"m", "o", "d", "u", "l", "e", " ", "m">>),
          GoModLine("blank", <<>>, <<>>, FALSE, <<>>)}

\* lines.join('\n')
RECURSIVE Join(_, _)
Join(lines, sep) ==
    IF Len(lines) = 0 THEN <<>>
    ELSE IF Len(lines) = 1 THEN Head(lines)
    ELSE Head(lines) \o <<sep>> \o Join(Tail(lines), sep)

GoModText(file) == Join([i \in 1..Len(file) |-> file[i].text], "\n")

InitGoMod ==
    /\ IdleOthers
    /\ pc = "parse"
    /\ parserName = "parseGoMod"
    /\ \E k \in 0..MaxGoModLines : \E file \in [1..k -> GoModLines] :
           content = GoModText(file)
    /\ results = <<>>
    /\ raised = FALSE
    /\ IdleClean /\ IdleClassify /\ IdleCompare /\ IdleDedup
    /\ IdleAnalyze /\ IdleRun

ParseGoMod ==
    /\ pc = "parse"
    /\ parserName = "parseGoMod"
    /\ results' = parseGoMod(content).groups
    /\ raised' = parseGoMod(content).raised
    /\ pc' = "parsed"
    /\ UNCHANGED <<version, cleaned, recleaned, oldVersion, newVersion, changeType,
                   oldDeps, newDeps, changes, allChanges, uniqueChanges,
                   parserName, content, analyzeVars, runVars,
                   guardVars, lookupVars, commentVars>>

NextGoMod == ParseGoMod

SpecGoMod == InitGoMod /\ [][NextGoMod]_vars

(***************************************************************************)
(* Claims about parseGoMod (checked under SpecGoMod)                       *)
(***************************************************************************)
\* the lines of the file whose text is the content
GoModFileOf(text) ==
    LET lines == Split(text, "\n")
    IN  [i \in 1..Len(lines) |-> CHOOSE l \in GoModLines : l.text = lines[i]]

\* the block a line leaves the file in: "none", "require" or "exclude"
BlockAfter(block, line) ==
    IF line.kind = "require (" THEN "require"
    ELSE IF line.kind = "exclude (" THEN "exclude"
    ELSE IF line.kind = ")" THEN "none"
    ELSE block

\* every block is opened outside a block and closed, entries stand in blocks
\* and single-line requirements outside them
RECURSIVE GoModWellFormed(_, _)
GoModWellFormed(file, block) ==
    IF Len(file) = 0 THEN block = "none"
    ELSE LET line == Head(file)
         IN  /\ line.kind \in {"require (", "exclude (", "require", "module"} => block = "none"
             /\ line.kind \in {")", "entry"} => block # "none"
             /\ GoModWellFormed(Tail(file), BlockAfter(block, line))

\* the require entries of a file, in order: the entries of the require blocks
\* and the single-line requirements
RECURSIVE RequireEntries(_, _)
RequireEntries(file, block) ==
    IF Len(file) = 0 THEN <<>>
    ELSE LET line == Head(file)
             here == IF \/ line.kind = "entry" /\ block = "require"
                        \/ line.kind = "require" /\ block = "none"
                     THEN <<line>> ELSE <<>>
         IN  here \o RequireEntries(Tail(file), BlockAfter(block, line))

Reported(groups) == IF Len(groups) = 0 THEN <<>> ELSE groups[1].dependencies

MaxPomDependencies == 3

PomDep(groupId, artifactId, ver, scope) ==
    [groupId |-> groupId, artifactId |-> artifactId, version |-> ver, scope |-> scope]

PropertyReference == <<"$", "{", "v", "}">>
TestScope == <<"t", "e", "s", "t">>

PomDeps ==
    {PomDep(<<"g">>, a, v, s) :
        a \in {<<"a">>, <<"b">>},
        v \in {<<"1", ".", "0">>, PropertyReference},
        s \in {UNDEFINED, TestScope}}
    \cup {PomDep(<<"g">>, <<"a">>, <<"2", ".", "0">>, UNDEFINED),
          PomDep(UNDEFINED, <<"a">>, <<"1", ".", "0">>, UNDEFINED),
          PomDep(<<"g">>, <<"a">>, UNDEFINED, UNDEFINED),
          PomDep(<<"g">>, <<"a">>, <<>>, UNDEFINED),
          PomDep(<<"g">>, <<"a">>, XmlObject, UNDEFINED)}

Pom(deps, managed) ==
    [wellFormed |-> TRUE, root |-> "project",
     dependencies |-> deps, dependencyManagement |-> managed]

\* text that is no XML, and XML whose root is not <project>
NotPomDocuments ==
    {[wellFormed |-> FALSE, root |-> "none",
      dependencies |-> <<>>, dependencyManagement |-> <<>>],
     [wellFormed |-> TRUE, root |-> "other",
      dependencies |-> <<>>, dependencyManagement |-> <<>>]}

InitPomXml ==
    /\ IdleOthers
    /\ pc = "parse"
    /\ parserName = "parsePomXml"
    /\ \/ content \in NotPomDocuments
       \/ \E i \in 0..MaxPomDependencies : \E j \in 0..(MaxPomDependencies - i) :
              \E deps \in [1..i -> PomDeps], managed \in [1..j -> PomDeps] :
                  content = Pom(deps, managed)
    /\ results = <<>>
    /\ raised = FALSE
    /\ IdleClean /\ IdleClassify /\ IdleCompare /\ IdleDedup
    /\ IdleAnalyze /\ IdleRun

ParsePomXml ==
    /\ pc = "parse"
    /\ parserName = "parsePomXml"
    /\ results' = parsePomXml(content).groups
    /\ raised' = parsePomXml(content).raised
    /\ pc' = "parsed"
    /\ UNCHANGED <<version, cleaned, recleaned, oldVersion, newVersion, changeType,
                   oldDeps, newDeps, changes, allChanges, uniqueChanges,
                   parserName, content, analyzeVars, runVars,
                   guardVars, lookupVars, commentVars>>

NextPomXml == ParsePomXml

SpecPomXml == InitPomXml /\ [][NextPomXml]_vars

(***************************************************************************)
(* Claims about parsePomXml (checked under SpecPomXml)                     *)
(***************************************************************************)
\* the entries of all groups, as <<group, position>>
EntriesOf(groups) ==
    UNION {{<<g, k>> : k \in 1..Len(groups[g].dependencies)} : g \in 1..Len(groups)}
EntryName(groups, e) == groups[e[1]].dependencies[e[2]][1]
EntryVersion(groups, e) == groups[e[1]].dependencies[e[2]][2]

\* a <dependency> with a group, an artifact and a version that is plain text
\* and no property reference
HasLiteralVersion(dep) ==
    /\ PomComplete(dep)
    /\ dep.version # XmlObject
    /\ ~IsPropertyReference(dep.version)

\* C17: parsePomXml emits no entry whose version starts with "${"; in a pom
\* whose versions are plain text, a name that only dependencies with such a
\* version carry has no entry, and a name carried by dependencies with a
\* literal version has an entry with one of these versions: exactly one when
\* one dependency carries it, in <dependencies> and in <dependencyManagement>.
C17_PropertyReferencesSkipped ==
    (pc = "parsed" /\ parserName = "parsePomXml") =>
        LET all == content.dependencies \o content.dependencyManagement
            names == {PomName(all[i]) : i \in 1..Len(all)}
        IN  /\ \A e \in EntriesOf(results) : ~IsPropertyReference(EntryVersion(results, e))
            /\ (\A i \in 1..Len(all) : all[i].version # XmlObject) =>
                   \A name \in names :
                       LET literal == {i \in 1..Len(all) :
                                          PomName(all[i]) = name /\ HasLiteralVersion(all[i])}
                           entries == {e \in EntriesOf(results) : EntryName(results, e) = name}
                       IN  /\ literal = {} => entries = {}
                           /\ literal # {} =>
                                  /\ entries # {}
                                  /\ Cardinality(entries) <= Cardinality(literal)
                                  /\ \A e \in entries : \E i \in literal :
                                         all[i].version = EntryVersion(results, e)

\* a property reference and a literal sibling in <dependencies>, a property
\* reference in <dependencyManagement>: the sibling is the one entry
C17_Witness ==
    /\ pc = "parsed"
    /\ parserName = "parsePomXml"
    /\ Len(content.dependencies) = 2
    /\ Len(content.dependencyManagement) = 1
    /\ IsPropertyReference(content.dependencies[1].version)
    /\ HasLiteralVersion(content.dependencies[2])
    /\ IsPropertyReference(content.dependencyManagement[1].version)
    /\ PomName(content.dependencyManagement[1]) # PomName(content.dependencies[2])
    /\ Cardinality(EntriesOf(results)) = 1
    /\ \A e \in EntriesOf(results) :
           EntryName(results, e) = PomName(content.dependencies[2])

\* the <dependency> elements of a section that declare a name: those with a
\* group and an artifact
Declaring(deps, name) ==
    {i \in 1..Len(deps) :
        Truthy(deps[i].groupId) /\ Truthy(deps[i].artifactId) /\ PomName(deps[i]) = name}

\* the type parsePomXml gives a direct dependency
PomType(dep) == IF dep.scope = TestScope THEN "test" ELSE "production"

\* C26: when <dependencies> and <dependencyManagement> both declare a
\* groupId:artifactId, the result of parsePomXml holds exactly one entry for
\* it, and the entry has the version and the type of the direct declaration.
\* Stated of a pom whose versions are plain text and of a name whose managed
\* declarations have a literal version.
C26_DirectDeclarationWins ==
    (/\ pc = "parsed" /\ parserName = "parsePomXml"
     /\ content.wellFormed /\ content.root = "project") =>
        LET direct == content.dependencies
            managed == content.dependencyManagement
            all == direct \o managed
        IN  (\A i \in 1..Len(all) : all[i].version # XmlObject) =>
            \A name \in {PomName(all[i]) : i \in 1..Len(all)} :
                (/\ Declaring(direct, name) # {}
                 /\ Declaring(managed, name) # {}
                 /\ \A i \in Declaring(managed, name) : HasLiteralVersion(managed[i])) =>
                    LET entries == {e \in EntriesOf(results) : EntryName(results, e) = name}
                    IN  /\ Cardinality(entries) = 1
                        /\ \A e \in entries : \E i \in Declaring(direct, name) :
                               /\ EntryVersion(results, e) = direct[i].version
                               /\ results[e[1]].dependencyType = PomType(direct[i])

(***************************************************************************)
(* analyzeFile on the two revisions of one file (SpecAnalyze)              *)
(***************************************************************************)
\* the largest number of entries of the dependencies section of a package.json
MaxSectionEntries == 1

V100 == <<"1", ".", "0", ".", "0">>
V200 == <<"2", ".", "0", ".", "0">>

\* the maps of "dependencies": distinct names, strings and a number as values
SectionMaps ==
    {m \in UNION {[1..k -> PackageNames \X {V100, V200, <<>>, NumberOne}] :
                     k \in 0..MaxSectionEntries} :
        \A i, j \in 1..Len(m) : m[i][1] = m[j][1] => i = j}

\* n opening braces and n closing ones
Nested(n) == [i \in 1..(2 * n) |-> IF i <= n THEN "{" ELSE "}"]

PackageJsonFile(text, parse, deps, devDeps) ==
    [text |-> text, parse |-> parse,
     dependencies |-> deps, devDependencies |-> devDeps,
     optionalDependencies |-> NoSection, peerDependencies |-> NoSection]

\* the empty string, a truncated object, the text null, and a package.json
\* nested deeper than the guard allows
EmptyPackageJson == PackageJsonFile(<<>>, "error", NoSection, NoSection)
TruncatedPackageJson == PackageJsonFile(<<"{">>, "error", NoSection, NoSection)
NullPackageJson == PackageJsonFile(<<"n", "u", "l", "l">>, "null", NoSection, NoSection)
OverDeepPackageJson ==
    PackageJsonFile(Nested(MAX_JSON_DEPTH + 1), "object",
                    Section(<< <<<<"a">>, V100>> >>), NoSection)

WellFormedPackageJsons ==
    {PackageJsonFile(Nested(2), "object", deps, devDeps) :
        deps \in {NoSection} \cup {Section(m) : m \in SectionMaps},
        devDeps \in {NoSection, Section(<< <<<<"a">>, V100>> >>),
                     Section(<< <<<<"b">>, V200>> >>)}}

PackageJsonFiles ==
    WellFormedPackageJsons
        \cup {EmptyPackageJson, TruncatedPackageJson, NullPackageJson, OverDeepPackageJson}

PackageLockFile(text, parse, packages, deps) ==
    [text |-> text, parse |-> parse, packages |-> packages, dependencies |-> deps]

LockInfo(ver, dev) == [version |-> ver, dev |-> dev]
EmptyPackageLock == PackageLockFile(<<>>, "error", NoSection, NoSection)

PackageLockFiles ==
    {PackageLockFile(<<"{">>, "error", NoSection, NoSection),
     PackageLockFile(Nested(3), "object",
         Section(<< <<<<>>, LockInfo(V100, FALSE)>>,
                    <<NodeModulesDir \o <<"/", "a">>, LockInfo(V100, FALSE)>>,
                    <<NodeModulesDir \o <<"/", "b">>, LockInfo(V200, TRUE)>> >>),
         NoSection),
     PackageLockFile(Nested(3), "object", NoSection,
         Section(<< <<<<"a">>, LockInfo(V200, FALSE)>>,
                    <<<<"b">>, LockInfo(UNDEFINED, FALSE)>> >>)),
     PackageLockFile(Nested(MAX_JSON_DEPTH + 1), "object", NoSection,
         Section(<< <<<<"a">>, LockInfo(V100, FALSE)>> >>))}

\* getFileAtRef: null, or the content
NoRevision(file) == [found |-> FALSE, content |-> file]
Revision(file) == [found |-> TRUE, content |-> file]
RevisionsOf(files, none) == {NoRevision(none)} \cup {Revision(file) : file \in files}

ReadmeMd == <<"R", "E", "A", "D", "M", "E", ".", "m", "d">>

InitAnalyze ==
    /\ IdleOthers
    /\ pc = "analyze"
    /\ \/ /\ filePath = PackageJson
          /\ oldContent \in RevisionsOf(PackageJsonFiles, EmptyPackageJson)
          /\ newContent \in RevisionsOf(PackageJsonFiles, EmptyPackageJson)
       \/ /\ filePath = PackageLockJson
          /\ oldContent \in RevisionsOf(PackageLockFiles, EmptyPackageLock)
          /\ newContent \in RevisionsOf(PackageLockFiles, EmptyPackageLock)
       \/ /\ filePath = ReadmeMd
          /\ oldContent \in RevisionsOf({TruncatedPackageJson}, EmptyPackageJson)
          /\ newContent \in RevisionsOf({TruncatedPackageJson}, EmptyPackageJson)
    /\ includeDevDependencies \in BOOLEAN
    /\ fileChanges = <<>>
    /\ IdleClean /\ IdleClassify /\ IdleCompare /\ IdleDedup
    /\ IdleParse /\ IdleRun

\* analyzeFile returns its changes, or the exception of compareVersions leaves it
AnalyzeFile ==
    /\ pc = "analyze"
    /\ \E outcome \in {analyzeFile(filePath, oldContent, newContent, includeDevDependencies)} :
           /\ fileChanges' = outcome.changes
           /\ pc' = IF outcome.threw THEN "thrown" ELSE "analyzed"
    /\ UNCHANGED <<version, cleaned, recleaned, oldVersion, newVersion, changeType,
                   oldDeps, newDeps, changes, allChanges, uniqueChanges,
                   filePath, oldContent, newContent, includeDevDependencies,
                   parseVars, runVars,
                   guardVars, lookupVars, commentVars>>

NextAnalyze == AnalyzeFile

SpecAnalyze == InitAnalyze /\ [][NextAnalyze]_vars

(***************************************************************************)
(* Claims about analyzeFile (checked under SpecAnalyze)                    *)
(***************************************************************************)
Returns == pc \in {"analyzed", "thrown"}
RegisteredParser == getParserForFile(filePath).parser

\* the (dependencyType, name) entries the file's parser finds in a content
ParsedEntries(file) ==
    LET groups == RunParser(RegisteredParser, file).groups
    IN  UNION {{<<groups[g].dependencyType, groups[g].dependencies[k][1]>> :
                   k \in 1..Len(groups[g].dependencies)} : g \in 1..Len(groups)}

ChangeEntries(chs) == {<<chs[i].dependencyType, chs[i].name>> : i \in 1..Len(chs)}

\* a content that is there and that the parser cannot read: no JSON text
\* (a SyntaxError), the text null, or nesting beyond the guard
ParseFails(revision) ==
    /\ revision.found
    /\ revision.content.text # <<>>
    /\ revision.content.parse # "object" \/ revision.content = OverDeepPackageJson
    /\ RunParser(RegisteredParser, revision.content).groups = <<>>

\* C12: when the content of a dependency file cannot be parsed at the base or
\* at the head revision, analyzeFile returns no change for the file, whatever
\* the other revision holds.
C12_FailedParseNoChanges ==
    (/\ Returns
     /\ getParserForFile(filePath).found
     /\ ParseFails(oldContent) \/ ParseFails(newContent))
    => (pc = "analyzed" /\ fileChanges = <<>>)

\* C14: with the development dependencies included, a file that is at neither
\* revision yields no change; a file that is only at the head yields one
\* 'added' change for each (dependencyType, name) entry parsed from the head
\* and nothing else; a file that is only at the base yields one 'removed'
\* change for each entry parsed from the base and nothing else.
C14_AbsentRevisions ==
    (Returns /\ includeDevDependencies /\ getParserForFile(filePath).found) =>
        /\ (~oldContent.found /\ ~newContent.found) =>
               (pc = "analyzed" /\ fileChanges = <<>>)
        /\ (~oldContent.found /\ newContent.found) =>
               /\ pc = "analyzed"
               /\ ChangeEntries(fileChanges) = ParsedEntries(newContent.content)
               /\ Len(fileChanges) = Cardinality(ParsedEntries(newContent.content))
               /\ \A i \in 1..Len(fileChanges) :
                      /\ fileChanges[i].changeType = "added"
                      /\ fileChanges[i].oldVersion = NULL
        /\ (oldContent.found /\ ~newContent.found) =>
               /\ pc = "analyzed"
               /\ ChangeEntries(fileChanges) = ParsedEntries(oldContent.content)
               /\ Len(fileChanges) = Cardinality(ParsedEntries(oldContent.content))
               /\ \A i \in 1..Len(fileChanges) :
                      /\ fileChanges[i].changeType = "removed"
                      /\ fileChanges[i].newVersion = NULL

\* a package.json that is only at the head, with a production and a
\* development entry, has yielded the two 'added' changes
C14_Witness ==
    /\ pc = "analyzed"
    /\ includeDevDependencies
    /\ filePath = PackageJson
    /\ ~oldContent.found
    /\ newContent.found
    /\ Len(fileChanges) = 2
    /\ fileChanges[1].changeType = "added" /\ fileChanges[1].dependencyType = "production"
    /\ fileChanges[2].changeType = "added" /\ fileChanges[2].dependencyType = "development"

Production(chs) == SelectSeq(chs, LAMBDA change : change.dependencyType = "production")

\* C16: when include-dev-dependencies is false, every change analyzeFile
\* returns is of type 'production', and the changes are those of the
\* production groups alone: the other groups take no part in the diff.
C16_ProductionOnly ==
    (Returns /\ ~includeDevDependencies) =>
        /\ \A i \in 1..Len(fileChanges) : fileChanges[i].dependencyType = "production"
        /\ LET all == analyzeFile(filePath, oldContent, newContent, TRUE)
           IN  (pc = "analyzed" /\ ~all.threw) => fileChanges = Production(all.changes)

\* a package.json whose production and development entries both changed has
\* yielded the production change alone
C16_Witness ==
    /\ pc = "analyzed"
    /\ ~includeDevDependencies
    /\ Len(fileChanges) = 1
    /\ fileChanges[1].dependencyType = "production"
    /\ Len(analyzeFile(filePath, oldContent, newContent, TRUE).changes) > 1

(***************************************************************************)
(* SpecRun: run over a pull request's changed files                        *)
(***************************************************************************)
MaxFiles == 2

PackageJsonOutside == <<".", ".", "/">> \o PackageJson

\* a package.json with one production or one development dependency
Depends(name, ver) ==
    PackageJsonFile(Nested(2), "object", Section(<< <<name, ver>> >>), NoSection)
DevDepends(name, ver) ==
    PackageJsonFile(Nested(2), "object", NoSection, Section(<< <<name, ver>> >>))
LockDepends(name, ver) ==
    PackageLockFile(Nested(3), "object", NoSection,
                    Section(<< <<name, LockInfo(ver, FALSE)>> >>))

ChangedFile(path, old, new) == [path |-> path, old |-> old, new |-> new]

\* what a pull request can change: a version raised, a file added, a
\* development dependency, the same package in a second manifest and in the
\* lock file, a file that holds no dependencies, a base revision that cannot
\* be parsed, a path that is refused, and a version that is a number
RepositoryFiles ==
    {ChangedFile(PackageJson, Revision(Depends(<<"a">>, V100)), Revision(Depends(<<"a">>, V200))),
     ChangedFile(PackageJson, NoRevision(EmptyPackageJson), Revision(Depends(<<"b">>, V100))),
     ChangedFile(PackageJson, Revision(DevDepends(<<"b">>, V100)),
                 Revision(DevDepends(<<"b">>, V200))),
     ChangedFile(PackageJsonInAppDir, Revision(Depends(<<"a">>, V100)),
                 Revision(Depends(<<"a">>, <<>>))),
     ChangedFile(PackageLockJson, Revision(LockDepends(<<"a">>, V100)),
                 Revision(LockDepends(<<"a">>, V200))),
     ChangedFile(ReadmeMd, Revision(TruncatedPackageJson), Revision(TruncatedPackageJson)),
     ChangedFile(PackageJson, Revision(TruncatedPackageJson), Revision(Depends(<<"a">>, V100))),
     ChangedFile(PackageJsonOutside, Revision(Depends(<<"a">>, V100)),
                 Revision(Depends(<<"a">>, V200))),
     ChangedFile(PackageJsonInAppDir, Revision(Depends(<<"a">>, NumberOne)),
                 Revision(Depends(<<"a">>, NumberOne)))}

RequestedEcosystems ==
    {<<All>>, <<NodeEcosystem>>, <<<<"g", "o">>, <<"n", "o", "p", "e">>>>, <<<<"n", "o", "p", "e">>>>}

RawInputs ==
    [token : {<<>>, <<"t">>},
     ecosystems : RequestedEcosystems,
     commentOnPr : BOOLEAN,
     includeDevDependencies : BOOLEAN]

InitRun ==
    /\ IdleOthers
    /\ pc = "run"
    /\ pullRequest \in BOOLEAN
    /\ \E k \in 0..MaxFiles : \E files \in [1..k -> RepositoryFiles] :
           \E diffFails \in BOOLEAN :
               repository = [diffFails |-> diffFails, changedFiles |-> files]
    /\ inputs \in RawInputs
    /\ allChanges = <<>> /\ uniqueChanges = <<>>
    /\ outputs = <<>>
    /\ comment = NoComment
    /\ failed = FALSE
    /\ IdleClean /\ IdleClassify /\ IdleCompare /\ IdleParse /\ IdleAnalyze

\* run, from getInputs to its return or to its catch
Run ==
    /\ pc = "run"
    /\ \E outcome \in {run(pullRequest, repository, inputs)} :
           /\ allChanges' = outcome.allChanges
           /\ uniqueChanges' = outcome.uniqueChanges
           /\ outputs' = outcome.outputs
           /\ comment' = outcome.comment
           /\ failed' = outcome.failed
    /\ pc' = "done"
    /\ UNCHANGED <<version, cleaned, recleaned, oldVersion, newVersion, changeType,
                   oldDeps, newDeps, changes, pullRequest, repository, inputs,
                   parseVars, analyzeVars,
                   guardVars, lookupVars, commentVars>>

NextRun == Run

SpecRun == InitRun /\ [][NextRun]_vars

(***************************************************************************)
(* Claims about run (checked under SpecRun)                                *)
(***************************************************************************)
DependencyFiles ==
    SelectSeq(repository.changedFiles, LAMBDA f : isDependencyFile(f.path))

\* the changes run takes from one file: analyzeFile's, the active ecosystems kept
ChangesOfFile(file) ==
    AnalyzeLoop(<<>>, <<file>>, getInputs(inputs))

\* C13: whatever the dependency files hold, run ends without setFailed and
\* the changes of every file that can be analysed are in the changes run
\* collects.  (A failing git diff is the environment's failure, not a
\* content's, and is left out.)
C13_ContentNeverAborts ==
    (pc = "done" /\ pullRequest /\ ~repository.diffFails) =>
        /\ ~failed
        /\ \A i \in 1..Len(DependencyFiles) :
               LET own == ChangesOfFile(DependencyFiles[i])
               IN  ~own.threw =>
                       \A k \in 1..Len(own.changes) : SeqIncludes(allChanges, own.changes[k])

OutputNames == {"has-changes", "changes-json", "changes-count"}

\* C15: when run ends without failing, the three outputs are set, has-changes
\* is true exactly when changes-count is greater than 0, and changes-count is
\* the number of elements of changes-json, which is the serialization of the
\* reconciled changes.
C15_OutputsAgree ==
    (pc = "done" /\ ~failed) =>
        /\ MapKeys(outputs) = OutputNames
        /\ MapGet(outputs, "has-changes") = (MapGet(outputs, "changes-count") > 0)
        /\ MapGet(outputs, "changes-count") = Len(MapGet(outputs, "changes-json"))
        /\ MapGet(outputs, "changes-json") = JsonStringify(uniqueChanges)

\* a full analysis has ended with one reconciled change, out of two detected
C15_Witness ==
    /\ pc = "done"
    /\ ~failed
    /\ pullRequest
    /\ Len(allChanges) = 2
    /\ MapGet(outputs, "changes-count") = 1
    /\ MapGet(outputs, "has-changes") = TRUE

\* run has ended with no pull request, and with no dependency file changed
C15_WitnessNoPullRequest == pc = "done" /\ ~pullRequest /\ MapKeys(outputs) = OutputNames
C15_WitnessNoDependencyFiles ==
    /\ pc = "done" /\ pullRequest /\ ~failed
    /\ Len(repository.changedFiles) > 0
    /\ Len(DependencyFiles) = 0
    /\ MapGet(outputs, "changes-count") = 0

(***************************************************************************)
(* SpecParse: a registered parser is handed the content of one file.  The  *)
(* content is text for the parsers that read it themselves, and for the    *)
(* others what the JSON, TOML, YAML or XML library makes of the text.      *)
(***************************************************************************)
MaxLines == 2

\* the texts of at most MaxLines lines
TextsOf(lines) == {Join(file, "\n") : file \in UNION {[1..k -> lines] : k \in 0..MaxLines}}

GoModTexts == TextsOf({line.text : line \in GoModLines})

GoSumTexts ==
    TextsOf({<<"a", " ", "v", "1", ".", "0", " ", "h">>,
             <<"a", " ", "v", "1", ".", "0", "/", "g", "o", ".", "m", "o", "d", " ", "h">>,
             <<"b", " ", "v", "2", ".", "0", " ", "h">>,
             <<"a", " ", "1", ".", "0">>,
             <<>>})

GemfileTexts ==
    TextsOf({<<"g", "e", "m", " ", "'", "a", "'">>,
             <<"g", "e", "m", " ", "'", "b", "'", ",", " ", "'", "1", ".", "0", "'">>,
             <<"g", "r", "o", "u", "p", " ", ":", "t", "e", "s", "t", " ", "d", "o">>,
             <<"e", "n", "d">>,
             <<"#", " ", "c">>})

GemfileLockTexts ==
    TextsOf({<<" ", " ", "s", "p", "e", "c", "s", ":">>,
             <<" ", " ", " ", " ", "a", " ", "(", "1", ".", "0", ")">>,
             <<" ", " ", " ", " ", " ", " ", "b", " ", "(", "=", " ", "1", ")">>,
             <<"P", "L", "A", "T", "F", "O", "R", "M", "S">>,
             <<>>})

RequirementsTexts ==
    TextsOf({<<"a", "=", "=", "1", ".", "0">>,
             <<"B", "[", "x", "]", ">", "=", "2", ".", "0">>,
             <<"c">>,
             <<"#", " ", "c">>,
             <<"-", "r", " ", "x">>,
             <<".", "/", "x">>})

YarnLockTexts ==
    TextsOf({<<"a", "@", "^", "1", ":">>,
             <<"\"", "@", "s", "/", "b", "@", "^", "2", "\"", ":">>,
             <<" ", " ", "v", "e", "r", "s", "i", "o", "n", " ", "\"", "1", ".", "0", "\"">>,
             <<" ", " ", "v", "e", "r", "s", "i", "o", "n", " ", "2", ".", "0">>,
             <<"#", " ", "y">>})

BuildGradleTexts ==
    TextsOf({<<"a", "p", "i", " ", "'", "g", ":", "a", ":", "1", ".", "0", "'">>,
             <<"a", "p", "i", "(", "\"", "g", ":", "a", ":", "2", ".", "0", "\"", ")">>,
             <<"t", "e", "s", "t", "C", "o", "m", "p", "i", "l", "e", " ",
               "'", "g", ":", "b", ":", "1", ".", "0", "'">>,
             <<"a", "p", "i", " ", "'", "g", ":", "a", "'">>,
             <<"/", "/", " ", "c">>})

\* the values of a TOML table: a string, a table with a version, one
\* without, one whose version is a number, and a number
TomlValues ==
    {V100, <<"object">> \o V200, <<"object">>, <<"object">> \o NumberOne, NumberOne}

\* a table that is missing, and the tables of at most MaxSectionEntries
\* entries with distinct names
TomlSections ==
    {NoSection}
        \cup {Section(m) : m \in
                  {m \in UNION {[1..k -> {<<"a">>, <<"B">>} \X TomlValues] :
                                   k \in 0..MaxSectionEntries} :
                      \A i, j \in 1..Len(m) : m[i][1] = m[j][1] => i = j}}

TomlText == <<"[", "x", "]">>
OneDependency == Section(<< <<<<"a">>, V100>> >>)

CargoToml(text, parse, deps, devDeps, buildDeps) ==
    [text |-> text, parse |-> parse, dependencies |-> deps,
     devDependencies |-> devDeps, buildDependencies |-> buildDeps]

\* the empty file, a truncated table header, a bracket closed too often, and
\* a file nested deeper than the guard allows
UnreadableCargoTomls ==
    {CargoToml(<<>>, "object", NoSection, NoSection, NoSection),
     CargoToml(<<"[", "x">>, "error", NoSection, NoSection, NoSection),
     CargoToml(<<"x", "]">>, "error", NoSection, NoSection, NoSection),
     CargoToml(Nested(MAX_NESTING_DEPTH + 1), "object", OneDependency, NoSection, NoSection)}

Pipfile(text, parse, packages, devPackages) ==
    [text |-> text, parse |-> parse, packages |-> packages, devPackages |-> devPackages]

UnreadablePipfiles ==
    {Pipfile(<<>>, "object", NoSection, NoSection),
     Pipfile(<<"[", "x">>, "error", NoSection, NoSection),
     Pipfile(Nested(MAX_NESTING_DEPTH + 1), "object", OneDependency, NoSection)}

LockPackage(name, ver, category) == [name |-> name, version |-> ver, category |-> category]

LockPackages ==
    {LockPackage(<<"a">>, V100, UNDEFINED),
     LockPackage(<<"B">>, V200, <<"d", "e", "v">>),
     LockPackage(<<"a">>, V200, <<"m", "a", "i", "n">>),
     LockPackage(UNDEFINED, V100, UNDEFINED)}

\* poetry.lock and Cargo.lock: the tables of [[package]]
TomlLock(text, parse, packages) == [text |-> text, parse |-> parse, package |-> packages]

UnreadableTomlLocks ==
    {TomlLock(<<>>, "object", NoSection),
     TomlLock(<<"[", "[", "x">>, "error", NoSection),
     TomlLock(Nested(MAX_NESTING_DEPTH + 1), "object",
              Section(<<LockPackage(<<"a">>, V100, UNDEFINED)>>))}

Pyproject(text, parse, deps, optional, poetry, poetryDeps, poetryDevDeps, groups) ==
    [text |-> text, parse |-> parse,
     projectDependencies |-> deps, optionalDependencies |-> optional,
     poetry |-> poetry, poetryDependencies |-> poetryDeps,
     poetryDevDependencies |-> poetryDevDeps, poetryGroups |-> groups]

Requirements == {<<"A", ">", "=", "1", ".", "0">>, <<"b">>, <<".", "x">>}

OptionalDependencies ==
    {NoSection,
     Section(<< <<<<"x">>, <<<<"c", "=", "=", "2">>>>>> >>),
     Section(<< <<<<"x">>, <<<<".", "x">>>>>> >>)}

Python == <<"p", "y", "t", "h", "o", "n">>

PoetryDependencies ==
    {NoSection,
     Section(<< <<Python, V100>> >>),
     Section(<< <<Python, V100>>, <<<<"a">>, <<"object">> \o V200>> >>)}

PoetryGroupSections ==
    {NoSection,
     Section(<< <<<<"d", "o", "c", "s">>, OneDependency>>,
                <<<<"t", "e", "s", "t">>, NoSection>> >>),
     Section(<< <<<<"l", "i", "n", "t">>, Section(<<>>)>>,
                <<<<"d", "e", "v">>, OneDependency>> >>)}

UnreadablePyprojects ==
    {Pyproject(<<>>, "object", NoSection, NoSection, FALSE, NoSection, NoSection, NoSection),
     Pyproject(<<"[", "x">>, "error", NoSection, NoSection, FALSE,
               NoSection, NoSection, NoSection),
     Pyproject(Nested(MAX_NESTING_DEPTH + 1), "object", Section(<<<<"b">>>>), NoSection,
               FALSE, NoSection, NoSection, NoSection)}

Importer(deps, devDeps) == [dependencies |-> deps, devDependencies |-> devDeps]

PnpmLock(text, parse, importers, packages) ==
    [text |-> text, parse |-> parse, importers |-> importers, packages |-> packages]

\* the dependencies of an importer: a version, an object with a version and
\* its peers, a link, null, and a number
ImporterDependencies ==
    {NoSection,
     Section(<< <<<<"a">>, V100>> >>),
     Section(<< <<<<"a">>, <<"object">> \o V200 \o <<"(", "p", "@", "1", ")">>>> >>),
     Section(<< <<<<"a">>, Link \o <<"x">>>> >>),
     Section(<< <<<<"a">>, NULL>> >>),
     Section(<< <<<<"a">>, NumberOne>> >>)}

PnpmPackages ==
    {NoSection,
     Section(<< <<<<"/", "z", "@", "1", ".", "0">>, [dev |-> FALSE]>>,
                <<<<"/", "@", "s", "/", "y", "@", "2", ".", "0">>, [dev |-> TRUE]>> >>),
     Section(<< <<<<"z">>, [dev |-> FALSE]>>,
                <<<<"w", "@">> \o Link \o <<"x">>, [dev |-> FALSE]>> >>)}

\* the empty document, a flow mapping left open, and a lock file nested
\* deeper than twenty levels
UnreadablePnpmLocks ==
    {PnpmLock(<<>>, "null", NoSection, NoSection),
     PnpmLock(<<"{", "a", ":">>, "error", NoSection, NoSection),
     PnpmLock(Nested(MAX_JSON_DEPTH + 1), "object",
              Section(<<Importer(OneDependency, NoSection)>>), NoSection)}

Csproj(parse, itemGroups, packages) ==
    [parse |-> parse, itemGroups |-> itemGroups, packages |-> packages]

\* the Include and Version attributes of a PackageReference
PackageReferences ==
    {<<<<"A">>, V100>>, <<<<"A">>, V200>>, <<<<"B">>, UNDEFINED>>, <<UNDEFINED, V100>>}

\* text that is no XML, and the empty string
UnreadableCsprojs == {Csproj("error", <<>>, <<>>), Csproj("null", <<>>, <<>>)}

\* the decimal numeral of a number
RECURSIVE Decimal(_)
Decimal(n) ==
    IF n < 10 THEN Numeral(n) ELSE Decimal(n \div 10) \o Numeral(n % 10)

\* a package.json with one dependency more than the limit of a file
LargePackageJson ==
    PackageJsonFile(Nested(2), "object",
                    Section([i \in 1..(MAX_DEPENDENCIES + 1) |-> <<<<"p">> \o Decimal(i), V100>>]),
                    NoSection)

\* lock files that name one package twice, with two versions: a package
\* installed at the top and again below another package, two [[package]]
\* tables of one name, a gem listed twice, a module and a package with two
\* versions
NestedPackageLock ==
    PackageLockFile(Nested(3), "object",
        Section(<< <<NodeModulesDir \o <<"/", "a">>, LockInfo(V100, FALSE)>>,
                   <<NodeModulesDir \o <<"/", "b", "/">> \o NodeModulesDir \o <<"/", "a">>,
                     LockInfo(V200, FALSE)>> >>),
        NoSection)
RepeatedTomlLock ==
    TomlLock(TomlText, "object",
             Section(<<LockPackage(<<"a">>, V100, UNDEFINED),
                       LockPackage(<<"a">>, V200, <<"m", "a", "i", "n">>)>>))
RepeatedGemfileLock ==
    Join(<< <<" ", " ", "s", "p", "e", "c", "s", ":">>,
            <<" ", " ", " ", " ", "a", " ", "(", "1", ".", "0", ")">>,
            <<" ", " ", " ", " ", "a", " ", "(", "2", ".", "0", ")">> >>, "\n")
RepeatedGoSum ==
    Join(<< <<"a", " ", "v", "1", ".", "0", " ", "h">>,
            <<"a", " ", "v", "2", ".", "0", " ", "h">> >>, "\n")
RepeatedYarnLock ==
    Join(<< <<"a", "@", "^", "1", ":">>,
            <<" ", " ", "v", "e", "r", "s", "i", "o", "n", " ", "\"", "1", ".", "0", "\"">>,
            <<"a", "@", "^", "2", ":">>,
            <<" ", " ", "v", "e", "r", "s", "i", "o", "n", " ", "\"", "2", ".", "0", "\"">> >>,
         "\n")

InitParse ==
    /\ IdleOthers
    /\ pc = "parse"
    /\ \/ parserName = "parsePackageJson" /\ content \in PackageJsonFiles \cup {LargePackageJson}
       \/ parserName = "parsePackageLockJson"
              /\ content \in PackageLockFiles \cup {EmptyPackageLock, NestedPackageLock}
       \/ parserName = "parseYarnLock" /\ content \in YarnLockTexts \cup {RepeatedYarnLock}
       \/ /\ parserName = "parsePnpmLock"
          /\ \/ content \in UnreadablePnpmLocks
             \/ \E deps \in ImporterDependencies :
                    \E devDeps \in {NoSection, Section(<< <<<<"b">>, V200>> >>)} :
                        \E packages \in PnpmPackages :
                            \/ content = PnpmLock(<<"a", ":">>, "object",
                                             Section(<<Importer(deps, devDeps)>>), packages)
                            \/ content = PnpmLock(<<"a", ":">>, "object", NoSection, packages)
       \/ parserName = "parseRequirementsTxt" /\ content \in RequirementsTexts
       \/ /\ parserName = "parsePyprojectToml"
          /\ \/ content \in UnreadablePyprojects
             \/ \E k \in 0..MaxSectionEntries : \E deps \in [1..k -> Requirements] :
                    \E optional \in OptionalDependencies :
                        \/ content = Pyproject(TomlText, "object", Section(deps), optional,
                                               FALSE, NoSection, NoSection, NoSection)
                        \/ \E poetryDeps \in PoetryDependencies :
                               \E devDeps \in {NoSection, OneDependency} :
                                   \E groups \in PoetryGroupSections :
                                       content = Pyproject(TomlText, "object", Section(deps),
                                                           optional, TRUE, poetryDeps,
                                                           devDeps, groups)
       \/ /\ parserName = "parsePipfile"
          /\ \/ content \in UnreadablePipfiles
             \/ \E packages \in TomlSections : \E devPackages \in TomlSections :
                    content = Pipfile(TomlText, "object", packages, devPackages)
       \/ /\ parserName \in {"parsePoetryLock", "parseCargoLock"}
          /\ \/ content \in UnreadableTomlLocks
             \/ content = TomlLock(TomlText, "object", NoSection)
             \/ content = RepeatedTomlLock
             \/ \E k \in 0..MaxSectionEntries : \E packages \in [1..k -> LockPackages] :
                    content = TomlLock(TomlText, "object", Section(packages))
       \/ parserName = "parseGoMod" /\ content \in GoModTexts
       \/ parserName = "parseGoSum" /\ content \in GoSumTexts \cup {RepeatedGoSum}
       \/ parserName = "parseGemfile" /\ content \in GemfileTexts
       \/ parserName = "parseGemfileLock"
              /\ content \in GemfileLockTexts \cup {RepeatedGemfileLock}
       \/ /\ parserName = "parsePomXml"
          /\ \/ content \in NotPomDocuments
             \/ \E k \in 0..MaxSectionEntries : \E deps \in [1..k -> PomDeps] :
                    \E managed \in {<<>>, <<PomDep(<<"g">>, <<"a">>, <<"2", ".", "0">>,
                                                   UNDEFINED)>>} :
                        content = Pom(deps, managed)
       \/ parserName = "parseBuildGradle" /\ content \in BuildGradleTexts
       \/ /\ parserName = "parseCargoToml"
          /\ \/ content \in UnreadableCargoTomls
             \/ \E deps \in TomlSections : \E devDeps \in TomlSections :
                    \E buildDeps \in {NoSection, OneDependency} :
                        content = CargoToml(TomlText, "object", deps, devDeps, buildDeps)
       \/ /\ parserName = "parseCsproj"
          /\ \/ content \in UnreadableCsprojs
             \/ \E k \in 0..MaxSectionEntries : \E references \in [1..k -> PackageReferences] :
                    \E packages \in {<<>>, <<<<<<"C">>, V100>>>>} :
                        \/ content = Csproj("object", <<references>>, packages)
                        \/ content = Csproj("object", <<references, references>>, packages)
    /\ results = <<>>
    /\ raised = FALSE
    /\ IdleClean /\ IdleClassify /\ IdleCompare /\ IdleDedup
    /\ IdleAnalyze /\ IdleRun

\* the call of the registered parser
Parse ==
    /\ pc = "parse"
    /\ \E outcome \in {RunParser(parserName, content)} :
           /\ results' = outcome.groups
           /\ raised' = outcome.raised
    /\ pc' = "parsed"
    /\ UNCHANGED <<version, cleaned, recleaned, oldVersion, newVersion, changeType,
                   oldDeps, newDeps, changes, allChanges, uniqueChanges,
                   parserName, content, analyzeVars, runVars,
                   guardVars, lookupVars, commentVars>>

NextParse == Parse

SpecParse == InitParse /\ [][NextParse]_vars

(***************************************************************************)
(* Claims about the registered parsers (checked under SpecParse)           *)
(***************************************************************************)
\* C19: a parser never returns a group whose dependency mapping is empty; a
\* section, table or block that holds no dependency adds no group, and a
\* file without any dependency yields the empty list.
C19_NoEmptyGroup ==
    pc = "parsed" =>
        \A i \in 1..Len(results) : Len(results[i].dependencies) > 0

\* parseCargoToml has read a file whose [dependencies] table is there and
\* empty and whose [dev-dependencies] table is not: it returns the
\* development group alone
C19_Witness ==
    /\ pc = "parsed"
    /\ parserName = "parseCargoToml"
    /\ content.parse = "object"
    /\ content.dependencies = Section(<<>>)
    /\ Len(content.devDependencies.entries) > 0
    /\ Len(results) = 1
    /\ results[1].dependencyType = "development"

\* the parsers whose content is a JSON, TOML or YAML document
DocumentParsers ==
    {"parsePackageJson", "parsePackageLockJson", "parsePnpmLock", "parsePyprojectToml",
     "parsePipfile", "parsePoetryLock", "parseCargoToml", "parseCargoLock"}

\* the deepest nesting of brackets and braces of a text
RECURSIVE DeepestNesting(_, _, _)
DeepestNesting(text, i, depth) ==
    IF i > Len(text) THEN depth
    ELSE IF text[i] \in {"{", "["}
    THEN Max({depth + 1, DeepestNesting(text, i + 1, depth + 1)})
    ELSE IF text[i] \in {"}", "]"}
    THEN DeepestNesting(text, i + 1, depth - 1)
    ELSE DeepestNesting(text, i + 1, depth)

\* the content does not match the grammar of its parser: it is the empty
\* string, a document that its library rejects, or a document nested
\* deeper than twenty levels
Malformed ==
    IF parserName \in DocumentParsers
    THEN \/ content.text = <<>>
         \/ content.parse = "error"
         \/ DeepestNesting(content.text, 1, 0) > 20
    ELSE IF parserName = "parsePomXml" THEN ~content.wellFormed
    ELSE IF parserName = "parseCsproj" THEN content.parse # "object"
    ELSE content = <<>>

\* C11: a registered parser never raises, and it returns the empty list for
\* a content that does not match its grammar (the empty string, truncated
\* JSON, invalid XML, nesting deeper than twenty levels).
C11_MalformedYieldsEmpty ==
    pc = "parsed" => ~raised /\ (Malformed => results = <<>>)

\* C22: a parser that hands its text to the JSON, TOML or YAML library runs
\* the depth guard first: for a text nested deeper than twenty levels it
\* returns the empty list, whatever the library would make of the text.
C22_OverDeepRejected ==
    (/\ pc = "parsed"
     /\ parserName \in DocumentParsers
     /\ DeepestNesting(content.text, 1, 0) > MAX_NESTING_DEPTH)
        => results = <<>>

\* the parsers of the files in which dependencies are declared
ManifestParsers ==
    {"parsePackageJson", "parseRequirementsTxt", "parsePyprojectToml", "parsePipfile",
     "parseGoMod", "parseGemfile", "parsePomXml", "parseBuildGradle", "parseCargoToml",
     "parseCsproj"}

\* the number of entries of all groups
RECURSIVE TotalEntries(_)
TotalEntries(groups) ==
    IF Len(groups) = 0 THEN 0
    ELSE Len(Head(groups).dependencies) + TotalEntries(Tail(groups))

\* C23: a manifest parser extracts at most 5,000 dependency entries from one
\* file.
C23_EntriesCapped ==
    (pc = "parsed" /\ parserName \in ManifestParsers)
        => TotalEntries(results) <= MAX_DEPENDENCIES

\* the lock and checksum parsers, and the files that hold the first
\* occurrences of a file only: its first lines, the first tables of its
\* [[package]] array, the first members of its "packages" or "dependencies"
TextLockParsers == {"parseGoSum", "parseYarnLock", "parseGemfileLock"}
TomlLockParsers == {"parseCargoLock", "parsePoetryLock"}
LockParsers == TextLockParsers \cup TomlLockParsers \cup {"parsePackageLockJson"}

FirstOf(section, k) == [section EXCEPT !.entries = SubSeq(@, 1, k)]

Beginnings(name, file) ==
    IF name \in TextLockParsers
    THEN {Join(SubSeq(Split(file, "\n"), 1, k), "\n") : k \in 1..Len(Split(file, "\n"))}
    ELSE IF name \in TomlLockParsers
    THEN {[file EXCEPT !.package = FirstOf(@, k)] : k \in 0..Len(file.package.entries)}
    ELSE {[file EXCEPT !.packages = FirstOf(@, k)] : k \in 0..Len(file.packages.entries)}
             \cup {[file EXCEPT !.dependencies = FirstOf(@, k)] :
                       k \in 0..Len(file.dependencies.entries)}

\* every entry of the groups is an entry of a group of the same type of the
\* results
KeptIn(groups, all) ==
    \A i \in 1..Len(groups) : \A k \in 1..Len(groups[i].dependencies) :
        \E j \in 1..Len(all) :
            /\ all[j].dependencyType = groups[i].dependencyType
            /\ MapHas(all[j].dependencies, groups[i].dependencies[k][1])
            /\ MapGet(all[j].dependencies, groups[i].dependencies[k][1])
                   = groups[i].dependencies[k][2]

\* C25: in a lock or checksum parser the version recorded for a name is that
\* of its first occurrence: what the parser records for the beginning of a
\* file, it records for the whole file, whatever follows.
C25_FirstOccurrenceWins ==
    (pc = "parsed" /\ parserName \in LockParsers /\ ~raised)
        => \A beginning \in Beginnings(parserName, content) :
               KeptIn(RunParser(parserName, beginning).groups, results)

\* C28: the version a manifest-with-sections parser stores for an entry is a
\* plain string; no object and no other value that is not a string leaves
\* the parser.
SectionParsers == {"parsePackageJson", "parseCargoToml", "parsePipfile", "parsePyprojectToml"}
C28_VersionsArePlainStrings ==
    (pc = "parsed" /\ parserName \in SectionParsers) =>
        \A e \in EntriesOf(results) : IsString(EntryVersion(results, e))

(***************************************************************************)
(* SpecGemfile: parseGemfile on Gemfiles with blocks                       *)
(***************************************************************************)
MaxGemfileLines == 4

GroupTestDo == <<"g", "r", "o", "u", "p", " ", ":", "t", "e", "s", "t", " ", "d", "o">>
PlatformsDo == <<"p", "l", "a", "t", "f", "o", "r", "m", "s", " ", ":", "r", "u", "b", "y",
                 " ", "d", "o">>
End == <<"e", "n", "d">>

\* a group block, another block, the end of a block, and two gems, the
\* second indented
GemfileLines ==
    {GroupTestDo, PlatformsDo, End,
     <<"g", "e", "m", " ", "'", "a", "'">>,
     <<" ", " ", "g", "e", "m", " ", "\"", "b", "\"", ",", " ", "'", "1", "'">>}

InitGemfile ==
    /\ IdleOthers
    /\ pc = "parse"
    /\ parserName = "parseGemfile"
    /\ \E k \in 0..MaxGemfileLines : \E file \in [1..k -> GemfileLines] :
           content = Join(file, "\n")
    /\ results = <<>>
    /\ raised = FALSE
    /\ IdleClean /\ IdleClassify /\ IdleCompare /\ IdleDedup
    /\ IdleAnalyze /\ IdleRun

ParseGemfile ==
    /\ pc = "parse"
    /\ parserName = "parseGemfile"
    /\ \E outcome \in {parseGemfile(content)} :
           /\ results' = outcome.groups
           /\ raised' = outcome.raised
    /\ pc' = "parsed"
    /\ UNCHANGED <<version, cleaned, recleaned, oldVersion, newVersion, changeType,
                   oldDeps, newDeps, changes, allChanges, uniqueChanges,
                   parserName, content, analyzeVars, runVars,
                   guardVars, lookupVars, commentVars>>

NextGemfile == ParseGemfile

SpecGemfile == InitGemfile /\ [][NextGemfile]_vars

(***************************************************************************)
(* Claims about parseGemfile (checked under SpecGemfile)                   *)
(***************************************************************************)
\* the gems of a Gemfile by the blocks they are in.  open holds, for every
\* block that is open, whether it is a development or test group; a line
\* that ends with the word do opens a block and an end closes the innermost
\* one.  A gem is a development gem when a block around it is such a group.
RECURSIVE GemsByBlock(_, _, _)
GemsByBlock(maps, lines, open) ==
    IF Len(lines) = 0 THEN maps
    ELSE LET trimmed == Trim(Head(lines))
             gemMatch == GemMatch(trimmed)
         IN  IF EndsWith(trimmed, <<" ", "d", "o">>)
             THEN GemsByBlock(maps, Tail(lines), <<GemfileGroupMatch(trimmed)>> \o open)
             ELSE IF trimmed = End
             THEN GemsByBlock(maps, Tail(lines), IF open = <<>> THEN open ELSE Tail(open))
             ELSE IF ~gemMatch.matched
             THEN GemsByBlock(maps, Tail(lines), open)
             ELSE IF \E i \in 1..Len(open) : open[i]
             THEN GemsByBlock([maps EXCEPT !.devDeps =
                                   MapSet(@, gemMatch.name, gemMatch.version)],
                              Tail(lines), open)
             ELSE GemsByBlock([maps EXCEPT !.deps =
                                   MapSet(@, gemMatch.name, gemMatch.version)],
                              Tail(lines), open)

\* C27: parseGemfile classifies every gem between a 'group :development' or
\* 'group :test' line and the matching 'end' as development and every other
\* gem as production, whatever other do...end blocks lie inside or after
\* the group.
C27_GroupBlockDecidesType ==
    (pc = "parsed" /\ parserName = "parseGemfile") =>
        \E maps \in {GemsByBlock([deps |-> <<>>, devDeps |-> <<>>],
                                 Split(content, "\n"), <<>>)} :
            results = GroupsOf(<< <<"production", maps.deps>>,
                                  <<"development", maps.devDeps>> >>)

(***************************************************************************)
(* SpecGuard: a depth guard is handed a text and a maximum                 *)
(***************************************************************************)
MaxGuardLen == 4

\* the characters that matter to a guard: brackets, quotes and the backslash
GuardChars == {"[", "}", "\"", "'", "\\"}

\* n opening brackets
Opening(n) == [i \in 1..n |-> "["]

Guards == {"checkJsonDepth", "checkNestingDepthPython", "checkNestingDepthRust"}

\* the guard under its maximum of twenty with a text that starts one or two
\* levels below it, and under a maximum of one or two
InitGuard ==
    /\ IdleClean /\ IdleClassify /\ IdleCompare /\ IdleDedup /\ IdleAnalyze /\ IdleRun
    /\ IdleLookup /\ IdleComment
    /\ pc = "check"
    /\ guard \in Guards
    /\ parserName = Unset /\ results = <<>> /\ raised = FALSE
    /\ \E k \in 0..MaxGuardLen : \E tail \in [1..k -> GuardChars] :
           \/ maxDepth = 1 /\ content = tail
           \/ maxDepth = 2 /\ content = tail
           \/ maxDepth = MAX_JSON_DEPTH /\ content = Opening(MAX_JSON_DEPTH - 1) \o tail
           \/ maxDepth = MAX_NESTING_DEPTH /\ content = Opening(MAX_NESTING_DEPTH - 2) \o tail
    /\ accepted = FALSE

\* the call of the guard
Check ==
    /\ pc = "check"
    /\ accepted' = CASE guard = "checkJsonDepth" -> checkJsonDepth(content, maxDepth)
                     [] guard = "checkNestingDepthPython" ->
                            checkNestingDepthPython(content, maxDepth)
                     [] guard = "checkNestingDepthRust" ->
                            checkNestingDepthRust(content, maxDepth)
    /\ pc' = "checked"
    /\ UNCHANGED <<version, cleaned, recleaned, oldVersion, newVersion, changeType,
                   oldDeps, newDeps, changes, allChanges, uniqueChanges,
                   parseVars, analyzeVars, runVars,
                   guard, maxDepth, lookupVars, commentVars>>

NextGuard == Check

SpecGuard == InitGuard /\ [][NextGuard]_vars

(***************************************************************************)
(* Claims about the depth guards (checked under SpecGuard)                 *)
(***************************************************************************)
\* the quotes that delimit a string literal: the double quote in JSON, both
\* quotes, single or tripled, in TOML
StringQuotes == IF guard = "checkJsonDepth" THEN {"\""} ELSE {"\"", "'"}
TripleQuotes == guard # "checkJsonDepth"

\* the positions of a text, from position i on, that lie outside string
\* literals; inside a literal a backslash takes the next character with it
RECURSIVE OutsideStrings(_, _, _, _)
OutsideStrings(text, i, delimiter, escaped) ==
    IF i > Len(text) THEN {}
    ELSE IF escaped THEN OutsideStrings(text, i + 1, delimiter, FALSE)
    ELSE IF delimiter # <<>>
    THEN IF text[i] = "\\" THEN OutsideStrings(text, i + 1, delimiter, TRUE)
         ELSE IF StartsWith(From(text, i), delimiter)
         THEN OutsideStrings(text, i + Len(delimiter), <<>>, FALSE)
         ELSE OutsideStrings(text, i + 1, delimiter, FALSE)
    ELSE IF text[i] \in StringQuotes
    THEN IF TripleQuotes /\ StartsWith(From(text, i), <<text[i], text[i], text[i]>>)
         THEN OutsideStrings(text, i + 3, <<text[i], text[i], text[i]>>, FALSE)
         ELSE OutsideStrings(text, i + 1, <<text[i]>>, FALSE)
    ELSE {i} \cup OutsideStrings(text, i + 1, <<>>, FALSE)

\* the depth after position i: the opening brackets less the closing ones
\* among the positions up to i
DepthAfter(text, positions, i) ==
    Cardinality({j \in positions : j <= i /\ text[j] \in {"{", "["}})
        - Cardinality({j \in positions : j <= i /\ text[j] \in {"}", "]"}})

\* somewhere the depth outside string literals exceeds the maximum or falls
\* below zero
TooDeepOrNegative ==
    \E positions \in {OutsideStrings(content, 1, <<>>, FALSE)} :
        \E i \in 1..Len(content) :
            \/ DepthAfter(content, positions, i) > maxDepth
            \/ DepthAfter(content, positions, i) < 0

\* C21: a depth guard fails exactly when the depth counted over the brackets
\* and braces outside string literals exceeds the maximum or becomes negative;
\* a text that reaches the maximum and never goes negative is accepted.
C21_GuardCountsOutsideStrings ==
    pc = "checked" => (accepted <=> ~TooDeepOrNegative)

(***************************************************************************)
(* SpecLookup: getParserForFile is handed the path of a changed file       *)
(***************************************************************************)
MaxDirs == 2

Patterns == 1..Len(DEPENDENCY_FILE_PATTERNS)

\* the file names and the extensions of the registry
ListedNames ==
    UNION {{DEPENDENCY_FILE_PATTERNS[i].fileNames[k] :
               k \in 1..Len(DEPENDENCY_FILE_PATTERNS[i].fileNames)} : i \in Patterns}
ListedExtensions ==
    UNION {{DEPENDENCY_FILE_PATTERNS[i].extensions[k] :
               k \in 1..Len(DEPENDENCY_FILE_PATTERNS[i].extensions)} : i \in Patterns}

\* the listed names, names that end with a listed extension, a bare
\* extension, and names that are listed neither way: with a suffix, with a
\* prefix, in another case, and the empty name of a path that ends with a slash
BaseNames ==
    ListedNames
        \cup {<<"x">> \o ext : ext \in ListedExtensions}
        \cup ListedExtensions
        \cup {name \o <<".", "b">> : name \in ListedNames}
        \cup {<<"x">> \o name : name \in {PackageJson, <<"g", "o", ".", "m", "o", "d">>}}
        \cup {ReadmeMd, <<"g", "e", "m", "f", "i", "l", "e">>, <<>>}

\* at most MaxDirs directories
RECURSIVE Directories(_)
Directories(n) == IF n = 0 THEN <<>> ELSE <<"d", "/">> \o Directories(n - 1)

InitLookup ==
    /\ IdleClean /\ IdleClassify /\ IdleCompare /\ IdleDedup /\ IdleParse /\ IdleRun
    /\ IdleGuard /\ IdleComment
    /\ pc = "lookup"
    /\ \E n \in 0..MaxDirs : \E name \in BaseNames : filePath = Directories(n) \o name
    /\ oldContent = <<>> /\ newContent = <<>>
    /\ includeDevDependencies = FALSE /\ fileChanges = <<>>
    /\ dependencyFile = Unset

\* the call of getParserForFile
Lookup ==
    /\ pc = "lookup"
    /\ dependencyFile' = getParserForFile(filePath)
    /\ pc' = "found"
    /\ UNCHANGED <<version, cleaned, recleaned, oldVersion, newVersion, changeType,
                   oldDeps, newDeps, changes, allChanges, uniqueChanges,
                   parseVars, analyzeVars, runVars, guardVars, commentVars>>

NextLookup == Lookup

SpecLookup == InitLookup /\ [][NextLookup]_vars

(***************************************************************************)
(* Claims about getParserForFile (checked under SpecLookup)                *)
(***************************************************************************)
\* the entries that list the base name of the path, and those of which an
\* extension ends it
BaseName == FileName(filePath)
ByName == {i \in Patterns : SeqIncludes(DEPENDENCY_FILE_PATTERNS[i].fileNames, BaseName)}
ByExtension ==
    {i \in Patterns :
        \E k \in 1..Len(DEPENDENCY_FILE_PATTERNS[i].extensions) :
            EndsWith(BaseName, DEPENDENCY_FILE_PATTERNS[i].extensions[k])}

\* the entry the lookup is to resolve to: the first that lists the name, else
\* the first that matches by extension
Resolved == IF ByName # {} THEN Min(ByName) ELSE Min(ByExtension)

\* C24: getParserForFile resolves the base name of the path against the
\* registry: an entry that lists the name takes precedence over one that
\* matches by extension only, among matches of one kind the first entry
\* wins, and null is returned exactly when no entry matches either way.
C24_NameBeforeExtension ==
    pc = "found" =>
        /\ dependencyFile.found <=> (ByName \cup ByExtension # {})
        /\ dependencyFile.found =>
               /\ dependencyFile.parser = DEPENDENCY_FILE_PATTERNS[Resolved].parser
               /\ dependencyFile.ecosystem = DEPENDENCY_FILE_PATTERNS[Resolved].ecosystem
               /\ dependencyFile.path = filePath

\* a file in a directory whose name is listed by one entry and ends with an
\* extension of an entry
C24_Witness ==
    /\ pc = "found"
    /\ Len(filePath) > Len(BaseName)
    /\ ByName # {} /\ ByExtension # {}
    /\ dependencyFile.found
    /\ dependencyFile.parser = "parseBuildGradle"

\* a file that only an extension matches, and one that nothing matches
C24_WitnessExtension ==
    /\ pc = "found"
    /\ ByName = {} /\ ByExtension # {}
    /\ dependencyFile.found
    /\ dependencyFile.parser = "parseCsproj"
C24_WitnessNull ==
    /\ pc = "found"
    /\ BaseName # <<>>
    /\ ~dependencyFile.found

(***************************************************************************)
(* SpecComment: runs of createOrUpdateComment on one pull request, between *)
(* the comments of others.  A comment is modelled by whether its body      *)
(* contains COMMENT_MARKER; comments holds the comments of the pull request *)
(* in the order of their creation, which is the order of listComments.     *)
(***************************************************************************)
\* per_page of the one call of listComments
PER_PAGE == 100

MaxComments == 102
MaxRuns == 2

\* formatChangesAsMarkdown(changes).includes(COMMENT_MARKER): the body starts
\* with the marker, whatever the changes
BodyHasMarker == TRUE

\* comments.find((comment) => comment.body?.includes(COMMENT_MARKER)) on the
\* page that listComments returns
ExistingComment(all) ==
    LET page == SubSeq(all, 1, IF Len(all) < PER_PAGE THEN Len(all) ELSE PER_PAGE)
        found == {i \in 1..Len(page) : page[i]}
    IN  IF found = {} THEN 0 ELSE Min(found)

InitComment ==
    /\ IdleClean /\ IdleClassify /\ IdleCompare /\ IdleDedup /\ IdleParse /\ IdleAnalyze
    /\ IdleGuard /\ IdleLookup
    /\ pc = "comment"
    /\ pullRequest \in BOOLEAN
    /\ repository = <<>> /\ inputs = <<>> /\ outputs = <<>> /\ comment = <<>>
    /\ failed = FALSE
    /\ comments = <<>>
    /\ posted = 0

\* somebody else comments on the pull request
OtherComment ==
    /\ pc = "comment"
    /\ pullRequest
    /\ Len(comments) < MaxComments
    /\ comments' = Append(comments, FALSE)
    /\ UNCHANGED <<pc, version, cleaned, recleaned, oldVersion, newVersion, changeType,
                   oldDeps, newDeps, changes, allChanges, uniqueChanges,
                   parseVars, analyzeVars, runVars, guardVars, lookupVars, posted>>

\* one run of createOrUpdateComment: without a pull request number it warns
\* and returns; a call of the API that fails is caught and warned about;
\* otherwise the comment found on the first page is updated, or a comment is
\* created
CreateOrUpdateComment ==
    /\ pc = "comment"
    /\ posted < MaxRuns
    /\ posted' = posted + 1
    /\ \/ ~pullRequest /\ comments' = comments
       \/ pullRequest /\ comments' = comments
       \/ /\ pullRequest
          /\ \E existingComment \in {ExistingComment(comments)} :
                 IF existingComment # 0
                 THEN comments' = [comments EXCEPT ![existingComment] = BodyHasMarker]
                 ELSE /\ Len(comments) < MaxComments
                      /\ comments' = Append(comments, BodyHasMarker)
    /\ UNCHANGED <<pc, version, cleaned, recleaned, oldVersion, newVersion, changeType,
                   oldDeps, newDeps, changes, allChanges, uniqueChanges,
                   parseVars, analyzeVars, runVars, guardVars, lookupVars>>

NextComment == OtherComment \/ CreateOrUpdateComment

SpecComment == InitComment /\ [][NextComment]_vars

(***************************************************************************)
(* Claims about createOrUpdateComment (checked under SpecComment)          *)
(***************************************************************************)
MarkerComments == {i \in 1..Len(comments) : comments[i]}

\* C29: after any sequence of runs of createOrUpdateComment on a pull
\* request, one after the other, at most one comment of the pull request
\* contains the marker.
C29_AtMostOneMarkerComment == Cardinality(MarkerComments) <= 1

\* the second half of C29: a run creates a comment only when no comment of
\* the pull request contains the marker
C29_CreatesOnlyWithoutMarker ==
    [][Len(comments') > Len(comments) /\ posted' > posted => MarkerComments = {}]_vars

====
